---- MODULE Spec2Model ----
(***************************************************************************)
(* Agent orchestration engine of src/app.py: the agent registry            *)
(* (MultiAgentChain.agents), the router (RouterAgent.route), the four      *)
(* strategy handlers (execute_single / execute_parallel /                  *)
(* execute_sequential / execute_branched), the process-wide DAG descriptor *)
(* (CURRENT_DAG), the execution history and the HTTP handlers that drive   *)
(* them (create_agent, update_agent, delete_agent, set_dag, get_dag,       *)
(* run_chain).                                                             *)
(*                                                                         *)
(* Conventions.                                                            *)
(*  - A text is a sequence of tokens; an f-string or a "+" of the source   *)
(*    is the concatenation (\o) of its literal pieces and its arguments.   *)
(*    Literals of the source written in Chinese are given in English.      *)
(*  - A Python dict is a sequence of [k, v] entries with distinct keys in  *)
(*    insertion order (Dict* operators).                                   *)
(*  - A temperature is counted in tenths (0.1 is 1, 1.2 is 12).            *)
(*  - A handler is one action.  What the handler did is left in `last`:    *)
(*    the request, the outcome, and the log of the backend calls it made.  *)
(*  - The generation backend is external: the outcome of every call a      *)
(*    handler makes is an input of the action (an oracle).                 *)
(*  - The handlers are synchronous functions, which the server runs on the *)
(*    threads of a pool.  `inflight` holds the requests being handled at   *)
(*    the level of their steps, one record per thread (SpecConc and        *)
(*    SpecKahn); it is empty where a handler is one action.                *)
(***************************************************************************)
EXTENDS Integers, Sequences, FiniteSets, TLC

VARIABLES agents, execution_history, CURRENT_DAG, last, inflight

vars == <<agents, execution_history, CURRENT_DAG, last, inflight>>

(***************************************************************************)
(* Bounds of the model.                                                    *)
(***************************************************************************)
\* Longest list of agent names a request (or a router decision) carries.
MaxList == 2
\* Number of records the history may hold before run_chain is no longer taken.
MaxHistory == 2

(***************************************************************************)
(* Sequences and texts.                                                    *)
(***************************************************************************)
Range(s) == {s[i] : i \in 1..Len(s)}

\* Sequences over S of length at most n.
SeqUpTo(S, n) == UNION {[1..k -> S] : k \in 0..n}

\* Sequences over S of length at most n without a repeated element.
DistinctSeqUpTo(S, n) ==
    {s \in SeqUpTo(S, n) : \A i, j \in 1..Len(s) : s[i] = s[j] => i = j}

\* The text t occurs in the text s (as a run of consecutive tokens).
Contains(s, t) ==
    \E i \in 0..Len(s) :
        /\ i + Len(t) <= Len(s)
        /\ \A j \in 1..Len(t) : s[i + j] = t[j]

RECURSIVE Join(_, _)
\* sep.join(parts), each part one token.
Join(parts, sep) ==
    IF Len(parts) = 0 THEN <<>>
    ELSE IF Len(parts) = 1 THEN <<parts[1]>>
    ELSE <<parts[1], sep>> \o Join(Tail(parts), sep)

(***************************************************************************)
(* Python dict: entries [k, v] in insertion order, keys distinct.          *)
(***************************************************************************)
DictHas(d, k) == \E i \in 1..Len(d) : d[i].k = k

DictGet(d, k) == d[CHOOSE i \in 1..Len(d) : d[i].k = k].v

\* d[k] = v: an existing key keeps its place, a new key goes last.
DictSet(d, k, v) ==
    IF DictHas(d, k)
    THEN [i \in 1..Len(d) |-> IF d[i].k = k THEN [k |-> k, v |-> v] ELSE d[i]]
    ELSE Append(d, [k |-> k, v |-> v])

\* del d[k]
DictDel(d, k) == SelectSeq(d, LAMBDA e : e.k # k)

\* list(d.keys())
DictKeys(d) == [i \in 1..Len(d) |-> d[i].k]

DictKeySet(d) == {d[i].k : i \in 1..Len(d)}

\* The keys of d are pairwise distinct.
DictWellFormed(d) == \A i, j \in 1..Len(d) : d[i].k = d[j].k => i = j

(***************************************************************************)
(* Agent (src/app.py, class Agent).  Agent.id, a random uuid4 nothing      *)
(* reads, is left out.                                                     *)
(***************************************************************************)
Agent(name, system_prompt, model, temperature) ==
    [name |-> name, system_prompt |-> system_prompt,
     model |-> model, temperature |-> temperature]

\* Defaults of AgentCreate.model and of the evaluator and router calls.
DefaultModel == "llama3.2:3b"

\* The four agents registered when the module is loaded, in order.
default_agents ==
    << Agent("summary",   <<"summary-prompt">>,   DefaultModel, 1),
       Agent("diff",      <<"diff-prompt">>,      DefaultModel, 1),
       Agent("structure", <<"structure-prompt">>, DefaultModel, 1),
       Agent("evaluator", <<"evaluator-agent-prompt">>, DefaultModel, 0) >>

\* MultiAgentChain.evaluator_prompt and RouterAgent.system_prompt.
evaluator_prompt == <<"evaluator-prompt">>
router_prompt == <<"router-prompt">>

(***************************************************************************)
(* The generation backend.  An outcome is what one call does: it returns   *)
(* the text `text` (ok) or raises an exception whose str() is `text`.      *)
(***************************************************************************)
Replies == {<<"r1">>, <<"r2">>}
Details == {<<"timeout">>}

Outcomes ==
    {[ok |-> TRUE, text |-> t] : t \in Replies} \cup
    {[ok |-> FALSE, text |-> t] : t \in Details}

\* One entry of a handler's log of backend calls.  `who` is "agent", "eval"
\* or "route"; `result` is what the caller of the backend made of the outcome.
Call(who, agent, model, system_prompt, user_prompt, temperature, outcome, result) ==
    [who |-> who, agent |-> agent, model |-> model,
     system_prompt |-> system_prompt, user_prompt |-> user_prompt,
     temperature |-> temperature, outcome |-> outcome, result |-> result]

(***************************************************************************)
(* Contexts: None, the empty mapping and a non-empty one.  ContextJson is  *)
(* json.dumps(context, ensure_ascii=False, indent=2).                      *)
(***************************************************************************)
Contexts == {"None", "{}", "{k: v}"}

\* Python truth of a context: None and {} are false.
ContextTruthy(context) == context \notin {"None", "{}"}

ContextJson(context) == <<"json(", context, ")">>

(***************************************************************************)
(* Agent.execute                                                           *)
(***************************************************************************)
\* The user prompt: the context block, if any, goes before the input.
AgentPrompt(input_text, context) ==
    IF ContextTruthy(context)
    THEN <<"\n\n=== context ===\n">> \o ContextJson(context) \o <<"\n\n">>
         \o input_text
    ELSE input_text

\* f"Agent {self.name} execution error: {str(e)}"
AgentErrorText(name, detail) ==
    <<"Agent ", name, " execution error: ">> \o detail

\* Variant: the failure is passed on as it is, without the agent's name.
AgentExecuteMutFail(agent, input_text, context, outcome) == outcome.text

\* What execute returns given the outcome of its backend call.
AgentExecute(agent, input_text, context, outcome) ==
    IF outcome.ok
    THEN outcome.text
    ELSE AgentErrorText(agent.name, outcome.text)

\* The log entry of that call.
AgentCall(agent, input_text, context, outcome) ==
    Call("agent", agent.name, agent.model, agent.system_prompt,
         AgentPrompt(input_text, context), agent.temperature, outcome,
         AgentExecute(agent, input_text, context, outcome))

(***************************************************************************)
(* JSON values a router reply can decode to, as far as run_chain reads     *)
(* them.  A field value is tagged with its JSON type:                      *)
(*   strategy: [t, s]  t in absent | null | str | num   (s: the string)    *)
(*   agents:   [t, l]  t in absent | null | list | str | num               *)
(*             (l: the elements of the list, or the characters of the      *)
(*              string, which is what indexing and iterating it yield;     *)
(*              list elements are strings)                                 *)
(* A decoded reply is [t, strategy, agents, reasoning] with t = "object",  *)
(* or t in list | num | str | null with the fields unused.                 *)
(***************************************************************************)
Absent == [t |-> "absent", s |-> ""]
Null == [t |-> "null", s |-> ""]
Str(s) == [t |-> "str", s |-> s]
Num == [t |-> "num", s |-> ""]

AbsentList == [t |-> "absent", l |-> <<>>]
NullList == [t |-> "null", l |-> <<>>]
List(l) == [t |-> "list", l |-> l]
StrChars(l) == [t |-> "str", l |-> l]
NumList == [t |-> "num", l |-> <<>>]

Object(strategy, agent_list, reasoning) ==
    [t |-> "object", strategy |-> strategy, agents |-> agent_list,
     reasoning |-> reasoning]

NonObject(t) ==
    [t |-> t, strategy |-> Absent, agents |-> AbsentList, reasoning |-> <<>>]

\* Python truth of a value: None (and a missing key, which .get turns into
\* None), "" and [] are false; a number stands for a non-zero one.
Truthy(v) == (v.t = "str" /\ v.s # "") \/ v.t = "num"
TruthyList(v) == (v.t \in {"list", "str"} /\ Len(v.l) > 0) \/ v.t = "num"

\* str.lower() on the strategy tokens of the model.
Lower(s) ==
    CASE s = "PARALLEL" -> "parallel"
      [] s = "Single" -> "single"
      [] s = "AUTO" -> "auto"
      [] OTHER -> s

(***************************************************************************)
(* RouterAgent.route.  A router outcome is what ollama.chat does for the   *)
(* routing call: it raises (ok = FALSE, text = str(e)), or it returns a    *)
(* content that json.loads rejects (json = FALSE) or decodes to `value`.   *)
(***************************************************************************)
RouterFailure(detail) ==
    [ok |-> FALSE, text |-> detail, json |-> FALSE, value |-> NonObject("null")]
RouterNotJson ==
    [ok |-> TRUE, text |-> <<"not json">>, json |-> FALSE, value |-> NonObject("null")]
RouterJson(value) ==
    [ok |-> TRUE, text |-> <<"json">>, json |-> TRUE, value |-> value]

\* [available_agents[0]] if available_agents else []
FirstAvailable(available_agents) ==
    IF Len(available_agents) > 0 THEN <<available_agents[1]>> ELSE <<>>

RouterPrompt(input_text, available_agents) ==
    <<"\navailable agents: ">> \o Join(available_agents, ", ")
    \o <<"\n\ninput:\n">> \o input_text \o <<"\n\nplease decide the strategy.\n">>

ParseFallbackReasoning == <<"automatic single-agent fallback">>
CallFallbackReasoning(detail) == <<"routing error, default strategy: ">> \o detail

\* Variant: no fallback, the decoded value whatever the reply was.
RouteMutNoFallback(input_text, available_agents, outcome) == outcome.value

\* The decision route returns.
Route(input_text, available_agents, outcome) ==
    IF ~outcome.ok
    THEN Object(Str("single"), List(FirstAvailable(available_agents)),
                CallFallbackReasoning(outcome.text))
    ELSE IF ~outcome.json
    THEN Object(Str("single"), List(FirstAvailable(available_agents)),
                ParseFallbackReasoning)
    ELSE outcome.value

\* The log entry of the routing call (temperature 0.1).
RouteCall(input_text, available_agents, outcome) ==
    Call("route", "", DefaultModel, router_prompt,
         RouterPrompt(input_text, available_agents), 1,
         [ok |-> outcome.ok, text |-> outcome.text], <<>>)

(***************************************************************************)
(* The strategy handlers.  Each is an operator from the registry, its      *)
(* arguments and the oracle (the outcomes of the backend calls it makes,   *)
(* in call order) to [exc, payload, calls]: exc is "" when the handler     *)
(* returns and the exception it raises otherwise; payload is what it       *)
(* appends to the history and returns; calls is the log of its calls.      *)
(***************************************************************************)
NoPayload == [strategy |-> "none"]

Returned(payload, calls) == [exc |-> "", payload |-> payload, calls |-> calls]
Raised(exc, calls) == [exc |-> exc, payload |-> NoPayload, calls |-> calls]

\* Variant: an unregistered name is not an error; the payload carries a
\* marker (as execute_branched does) and no agent is called.
execute_singleMutMarker(reg, agent_name, input_text, context, oracle) ==
    IF ~DictHas(reg, agent_name)
    THEN Returned([strategy |-> "single", agent |-> agent_name,
                   result |-> <<"(skipped)">>, context |-> context], <<>>)
    ELSE LET c == AgentCall(DictGet(reg, agent_name), input_text, context, oracle[1])
         IN  Returned([strategy |-> "single", agent |-> agent_name,
                       result |-> c.result, context |-> context], <<c>>)

\* Variant: the payload of execute_single without its "agent" entry.
execute_singleMutNoAgent(reg, agent_name, input_text, context, oracle) ==
    IF ~DictHas(reg, agent_name)
    THEN Raised("ValueError", <<>>)
    ELSE LET c == AgentCall(DictGet(reg, agent_name), input_text, context, oracle[1])
         IN  Returned([strategy |-> "single", result |-> c.result,
                       context |-> context], <<c>>)

\* MultiAgentChain.execute_single
execute_single(reg, agent_name, input_text, context, oracle) ==
    IF ~DictHas(reg, agent_name)
    THEN Raised("ValueError", <<>>)
    ELSE LET c == AgentCall(DictGet(reg, agent_name), input_text, context, oracle[1])
         IN  Returned([strategy |-> "single", agent |-> agent_name,
                       result |-> c.result, context |-> context], <<c>>)

RECURSIVE SequentialLoopMutNoThread(_, _, _, _, _, _, _, _)
\* Variant: every agent gets the input the loop started with (no
\* "current_input = result").
SequentialLoopMutNoThread(reg, names, i, current_input, steps, calls, context, oracle) ==
    IF i > Len(names)
    THEN [steps |-> steps, current |-> current_input, calls |-> calls]
    ELSE IF ~DictHas(reg, names[i])
    THEN SequentialLoopMutNoThread(reg, names, i + 1, current_input, steps,
                                   calls, context, oracle)
    ELSE LET c == AgentCall(DictGet(reg, names[i]), current_input, context,
                            oracle[Len(calls) + 1])
         IN  SequentialLoopMutNoThread(reg, names, i + 1, current_input,
                 Append(steps, [agent |-> names[i], input |-> current_input,
                                output |-> c.result]),
                 Append(calls, c), context, oracle)

RECURSIVE SequentialLoopMutBreak(_, _, _, _, _, _, _, _)
\* Variant: an unregistered name ends the loop (break for continue).
SequentialLoopMutBreak(reg, names, i, current_input, steps, calls, context, oracle) ==
    IF i > Len(names) \/ ~DictHas(reg, names[i])
    THEN [steps |-> steps, current |-> current_input, calls |-> calls]
    ELSE LET c == AgentCall(DictGet(reg, names[i]), current_input, context,
                            oracle[Len(calls) + 1])
         IN  SequentialLoopMutBreak(reg, names, i + 1, c.result,
                 Append(steps, [agent |-> names[i], input |-> current_input,
                                output |-> c.result]),
                 Append(calls, c), context, oracle)

RECURSIVE SequentialLoop(_, _, _, _, _, _, _, _)
\* The for loop of execute_sequential from position i on: [steps, current, calls].
SequentialLoop(reg, names, i, current_input, steps, calls, context, oracle) ==
    IF i > Len(names)
    THEN [steps |-> steps, current |-> current_input, calls |-> calls]
    ELSE IF ~DictHas(reg, names[i])
    THEN SequentialLoop(reg, names, i + 1, current_input, steps, calls,
                        context, oracle)
    ELSE LET c == AgentCall(DictGet(reg, names[i]), current_input, context,
                            oracle[Len(calls) + 1])
         IN  SequentialLoop(reg, names, i + 1, c.result,
                 Append(steps, [agent |-> names[i], input |-> current_input,
                                output |-> c.result]),
                 Append(calls, c), context, oracle)

\* MultiAgentChain.execute_sequential; agent_names is a tagged value.
execute_sequential(reg, agent_names, input_text, context, oracle) ==
    IF agent_names.t = "num"
    THEN Raised("TypeError", <<>>)
    ELSE LET r == SequentialLoop(reg, agent_names.l, 1, input_text, <<>>, <<>>,
                                 context, oracle)
         IN  Returned([strategy |-> "sequential", agents |-> agent_names,
                       steps |-> r.steps, final_result |-> r.current], r.calls)

RECURSIVE ParallelLoopMutMarker(_, _, _, _, _, _, _, _)
\* Variant: an unregistered name gets an entry too (a marker, as in
\* execute_branched) instead of being skipped.
ParallelLoopMutMarker(reg, names, i, results, calls, input_text, context, oracle) ==
    IF i > Len(names)
    THEN [results |-> results, calls |-> calls]
    ELSE IF ~DictHas(reg, names[i])
    THEN ParallelLoopMutMarker(reg, names, i + 1,
                               DictSet(results, names[i], <<"(skipped)">>),
                               calls, input_text, context, oracle)
    ELSE LET c == AgentCall(DictGet(reg, names[i]), input_text, context,
                            oracle[Len(calls) + 1])
         IN  ParallelLoopMutMarker(reg, names, i + 1,
                                   DictSet(results, names[i], c.result),
                                   Append(calls, c), input_text, context, oracle)

RECURSIVE ParallelLoop(_, _, _, _, _, _, _, _)
\* The first for loop of execute_parallel from position i on: [results, calls].
ParallelLoop(reg, names, i, results, calls, input_text, context, oracle) ==
    IF i > Len(names)
    THEN [results |-> results, calls |-> calls]
    ELSE IF ~DictHas(reg, names[i])
    THEN ParallelLoop(reg, names, i + 1, results, calls, input_text, context,
                      oracle)
    ELSE LET c == AgentCall(DictGet(reg, names[i]), input_text, context,
                            oracle[Len(calls) + 1])
         IN  ParallelLoop(reg, names, i + 1, DictSet(results, names[i], c.result),
                          Append(calls, c), input_text, context, oracle)

\* Variant: the merge sees the first result only (a partial merge).
EvaluationResultsMutFirstOnly(results) ==
    IF Len(results) = 0 THEN <<>>
    ELSE <<"\n=== ", results[1].k, " ===\n">> \o results[1].v \o <<"\n">>

RECURSIVE EvaluationResults(_)
\* The second for loop: one labelled block per entry of results.
EvaluationResults(results) ==
    IF Len(results) = 0 THEN <<>>
    ELSE <<"\n=== ", results[1].k, " ===\n">> \o results[1].v \o <<"\n">>
         \o EvaluationResults(Tail(results))

EvaluationInput(input_text, results) ==
    <<"original input:\n">> \o input_text \o <<"\n\nagent results:\n">>
    \o EvaluationResults(results)

\* Variant: a failure of the evaluator call is turned into a text, as
\* Agent.execute does, and the payload is returned.
execute_parallelMutSwallow(reg, agent_names, input_text, context, oracle) ==
    IF agent_names.t = "num"
    THEN Raised("TypeError", <<>>)
    ELSE LET r == ParallelLoop(reg, agent_names.l, 1, <<>>, <<>>, input_text,
                               context, oracle)
             o == oracle[Len(r.calls) + 1]
             e == Call("eval", "", DefaultModel, evaluator_prompt,
                       EvaluationInput(input_text, r.results), 1, o, o.text)
         IN  Returned([strategy |-> "parallel", agents |-> agent_names,
                       individual_results |-> r.results,
                       final_result |-> o.text], Append(r.calls, e))

\* MultiAgentChain.execute_parallel.  The evaluator call is a bare
\* process_with_llm: its failure is raised, not turned into a text.
execute_parallel(reg, agent_names, input_text, context, oracle) ==
    IF agent_names.t = "num"
    THEN Raised("TypeError", <<>>)
    ELSE LET r == ParallelLoop(reg, agent_names.l, 1, <<>>, <<>>, input_text,
                               context, oracle)
             o == oracle[Len(r.calls) + 1]
             e == Call("eval", "", DefaultModel, evaluator_prompt,
                       EvaluationInput(input_text, r.results), 1, o, o.text)
         IN  IF ~o.ok
             THEN Raised("BackendError", Append(r.calls, e))
             ELSE Returned([strategy |-> "parallel", agents |-> agent_names,
                            individual_results |-> r.results,
                            final_result |-> o.text], Append(r.calls, e))

(***************************************************************************)
(* DAGConfig and execute_branched.  An edge is a list of strings; only the *)
(* edges of length 2 are kept.  indeg and adj are dicts.                   *)
(***************************************************************************)
DAGConfig(edges, entry, outputs) ==
    [edges |-> edges, entry |-> entry, outputs |-> outputs]

\* [(e[0], e[1]) for e in dag.edges if len(e) == 2]
DagEdges(dag) == SelectSeq(dag.edges, LAMBDA e : Len(e) = 2)

\* d.get(k, default)
DictGetOr(d, k, default) == IF DictHas(d, k) THEN DictGet(d, k) ELSE default

RECURSIVE BuildGraph(_, _, _, _)
\* The loop over the edges from position i on: [indeg, adj].
BuildGraph(edges, i, indeg, adj) ==
    IF i > Len(edges)
    THEN [indeg |-> indeg, adj |-> adj]
    ELSE LET s == edges[i][1]
             t == edges[i][2]
             adj1 == DictSet(adj, s, Append(DictGetOr(adj, s, <<>>), t))
             indeg1 == DictSet(indeg, t, DictGetOr(indeg, t, 0) + 1)
             indeg2 == IF DictHas(indeg1, s) THEN indeg1 ELSE DictSet(indeg1, s, 0)
         IN  BuildGraph(edges, i + 1, indeg2, adj1)

\* Variant: the entry is always computed from the in-degrees (dag.entry
\* is ignored).
BranchedEntryMutComputed(dag, indeg) ==
    DictKeys(SelectSeq(indeg, LAMBDA e : e.v = 0))

\* dag.entry or [n for n, d in indeg.items() if d == 0]
BranchedEntry(dag, indeg) ==
    IF Len(dag.entry) > 0
    THEN dag.entry
    ELSE DictKeys(SelectSeq(indeg, LAMBDA e : e.v = 0))

RECURSIVE RelaxMutEager(_, _, _, _)
\* Variant: every successor is enqueued at once, whatever its in-degree
\* (a breadth-first walk).
RelaxMutEager(succ, i, indeg, q) ==
    IF i > Len(succ)
    THEN [indeg |-> indeg, q |-> q]
    ELSE LET d == DictGet(indeg, succ[i]) - 1
             indeg1 == DictSet(indeg, succ[i], d)
         IN  RelaxMutEager(succ, i + 1, indeg1, Append(q, succ[i]))

RECURSIVE Relax(_, _, _, _)
\* The loop over the successors of a dequeued node from position i on: [indeg, q].
Relax(succ, i, indeg, q) ==
    IF i > Len(succ)
    THEN [indeg |-> indeg, q |-> q]
    ELSE LET d == DictGet(indeg, succ[i]) - 1
             indeg1 == DictSet(indeg, succ[i], d)
         IN  Relax(succ, i + 1, indeg1, IF d <= 0 THEN Append(q, succ[i]) ELSE q)

RECURSIVE Kahn(_, _, _, _, _)
\* The while loop: [order, seen].
Kahn(q, seen, order, indeg, adj) ==
    IF Len(q) = 0
    THEN [order |-> order, seen |-> seen]
    ELSE LET n == Head(q)
         IN  IF n \in seen
             THEN Kahn(Tail(q), seen, order, indeg, adj)
             ELSE LET r == Relax(DictGetOr(adj, n, <<>>), 1, indeg, Tail(q))
                  IN  Kahn(r.q, seen \cup {n}, Append(order, n), r.indeg, adj)

\* Variant: the pass after the Kahn loop appends every key of adj, seen or
\* not.
TopoOrderMutAppendAll(dag) ==
    LET g == BuildGraph(DagEdges(dag), 1, <<>>, <<>>)
        k == Kahn(BranchedEntry(dag, g.indeg), {}, <<>>, g.indeg, g.adj)
    IN  k.order \o DictKeys(g.adj)

\* The order in which the nodes run: the Kahn pass, then the keys of adj it
\* did not see.
TopoOrder(dag) ==
    LET g == BuildGraph(DagEdges(dag), 1, <<>>, <<>>)
        k == Kahn(BranchedEntry(dag, g.indeg), {}, <<>>, g.indeg, g.adj)
    IN  k.order \o SelectSeq(DictKeys(g.adj), LAMBDA n : n \notin k.seen)

SkippedMarker(name) == <<"(skipped, agent not found: ", name, ")">>

RECURSIVE BranchedLoopMutFeedForward(_, _, _, _, _, _, _, _)
\* Variant: a node gets the output of the node that ran before it (as
\* execute_sequential threads current_input).
BranchedLoopMutFeedForward(reg, order, i, outputs, calls, input_text, context, oracle) ==
    IF i > Len(order)
    THEN [outputs |-> outputs, calls |-> calls]
    ELSE IF ~DictHas(reg, order[i])
    THEN BranchedLoopMutFeedForward(reg, order, i + 1,
                      DictSet(outputs, order[i], SkippedMarker(order[i])),
                      calls, input_text, context, oracle)
    ELSE LET c == AgentCall(DictGet(reg, order[i]), input_text, context,
                            oracle[Len(calls) + 1])
         IN  BranchedLoopMutFeedForward(reg, order, i + 1,
                          DictSet(outputs, order[i], c.result),
                          Append(calls, c), c.result, context, oracle)

RECURSIVE BranchedLoop(_, _, _, _, _, _, _, _)
\* The execution loop over the order from position i on: [outputs, calls].
BranchedLoop(reg, order, i, outputs, calls, input_text, context, oracle) ==
    IF i > Len(order)
    THEN [outputs |-> outputs, calls |-> calls]
    ELSE IF ~DictHas(reg, order[i])
    THEN BranchedLoop(reg, order, i + 1,
                      DictSet(outputs, order[i], SkippedMarker(order[i])),
                      calls, input_text, context, oracle)
    ELSE LET c == AgentCall(DictGet(reg, order[i]), input_text, context,
                            oracle[Len(calls) + 1])
         IN  BranchedLoop(reg, order, i + 1, DictSet(outputs, order[i], c.result),
                          Append(calls, c), input_text, context, oracle)

RECURSIVE FilterOutputs(_, _, _, _)
\* {k: outputs[k] for k in dag.outputs} from position i on.
FilterOutputs(names, i, outputs, acc) ==
    IF i > Len(names) THEN acc
    ELSE FilterOutputs(names, i + 1, outputs,
                       DictSet(acc, names[i], DictGet(outputs, names[i])))

\* MultiAgentChain.execute_branched.  outputs[k] of a name k that did not
\* run is a KeyError.
execute_branched(reg, dag, input_text, context, oracle) ==
    LET g == BuildGraph(DagEdges(dag), 1, <<>>, <<>>)
        entry == BranchedEntry(dag, g.indeg)
        order == TopoOrder(dag)
        r == BranchedLoop(reg, order, 1, <<>>, <<>>, input_text, context, oracle)
    IN  IF \E i \in 1..Len(dag.outputs) : ~DictHas(r.outputs, dag.outputs[i])
        THEN Raised("KeyError", r.calls)
        ELSE Returned(
                 [strategy |-> "branched", topo_order |-> order,
                  edges |-> DagEdges(dag), entry |-> entry,
                  outputs |-> r.outputs,
                  final_result |->
                      IF Len(dag.outputs) > 0
                      THEN FilterOutputs(dag.outputs, 1, r.outputs, <<>>)
                      ELSE r.outputs],
                 r.calls)

(***************************************************************************)
(* Registry handlers: create_agent, update_agent, delete_agent, with       *)
(* MultiAgentChain.add_agent and remove_agent.  Each result is             *)
(* [status, agents]: the response and the registry afterwards.             *)
(***************************************************************************)
\* self.agents[agent.name] = agent
add_agent(reg, agent) == DictSet(reg, agent.name, agent)

\* if name in self.agents: del self.agents[name]
remove_agent(reg, name) == IF DictHas(reg, name) THEN DictDel(reg, name) ELSE reg

\* Variant: no check that the name is free.
create_agentMutNoCheck(reg, a) ==
    [status |-> "ok",
     agents |-> add_agent(reg, Agent(a.name, a.system_prompt, a.model, a.temperature))]

\* POST /api/agents; a is an AgentCreate.
create_agent(reg, a) ==
    IF DictHas(reg, a.name)
    THEN [status |-> "already_exists", agents |-> reg]
    ELSE [status |-> "ok",
          agents |-> add_agent(reg, Agent(a.name, a.system_prompt, a.model,
                                          a.temperature))]

\* An AgentUpdate: a field is [some, v]; some = FALSE is None.
NoText == [some |-> FALSE, v |-> <<>>]
NoModel == [some |-> FALSE, v |-> ""]
NoTemperature == [some |-> FALSE, v |-> 0]
Some(v) == [some |-> TRUE, v |-> v]

AgentUpdate(system_prompt, model, temperature) ==
    [system_prompt |-> system_prompt, model |-> model,
     temperature |-> temperature]

AgentCreate(name, system_prompt, model, temperature) ==
    [name |-> name, system_prompt |-> system_prompt, model |-> model,
     temperature |-> temperature]

\* The agent after the three "if data.<field> is not None" assignments.
Updated(ag, data) ==
    Agent(ag.name,
          IF data.system_prompt.some THEN data.system_prompt.v ELSE ag.system_prompt,
          IF data.model.some THEN data.model.v ELSE ag.model,
          IF data.temperature.some THEN data.temperature.v ELSE ag.temperature)

\* Variant: an unknown name is created instead of refused (an upsert).
update_agentMutUpsert(reg, name, data) ==
    [status |-> "ok",
     agents |-> DictSet(reg, name,
                        Updated(IF DictHas(reg, name) THEN DictGet(reg, name)
                                ELSE Agent(name, <<>>, DefaultModel, 0), data))]

\* PUT /api/agents/{name}
update_agent(reg, name, data) ==
    IF ~DictHas(reg, name)
    THEN [status |-> "not_found", agents |-> reg]
    ELSE [status |-> "ok",
          agents |-> DictSet(reg, name, Updated(DictGet(reg, name), data))]

\* DELETE /api/agents/{name}
delete_agent(reg, name) ==
    IF ~DictHas(reg, name)
    THEN [status |-> "not_found", agents |-> reg]
    ELSE [status |-> "ok", agents |-> remove_agent(reg, name)]

(***************************************************************************)
(* set_dag.  The descriptor is replaced first; the response then renders   *)
(* it with dag_to_mermaid, whose "for src, dst in cfg.edges" raises on an  *)
(* edge that is not a pair.                                                *)
(***************************************************************************)
MermaidRaises(dag) == \E i \in 1..Len(dag.edges) : Len(dag.edges[i]) # 2

\* The lines of dag_to_mermaid(cfg), for a descriptor whose edges are pairs.
dag_to_mermaid(cfg) ==
    <<"flowchart LR">>
    \o (IF Len(cfg.entry) > 0
        THEN <<"START([entry])">>
             \o [i \in 1..Len(cfg.entry) |-> <<"START", "-->", cfg.entry[i]>>]
        ELSE <<>>)
    \o (IF Len(cfg.outputs) > 0 THEN <<"END([exit])">> ELSE <<>>)
    \o [i \in 1..Len(cfg.edges) |-> <<cfg.edges[i][1], "-->", cfg.edges[i][2]>>]
    \o [i \in 1..Len(cfg.outputs) |-> <<cfg.outputs[i], "-->", "END">>]

\* What a failed DAG request answers with.
NoDagBody == [edges |-> <<>>, entry |-> <<>>, outputs |-> <<>>, mermaid |-> <<>>]

\* get_dag on the descriptor dag: [status, body].
get_dag(dag) ==
    IF MermaidRaises(dag)
    THEN [status |-> "fault", body |-> NoDagBody]
    ELSE [status |-> "ok",
          body |-> [edges |-> dag.edges, entry |-> dag.entry,
                    outputs |-> dag.outputs, mermaid |-> dag_to_mermaid(dag)]]

\* Variant: the edges of the request are added to those of the descriptor.
set_dagMutMerge(cfg) ==
    [status |-> IF MermaidRaises(cfg) THEN "fault" ELSE "ok",
     dag |-> DAGConfig(CURRENT_DAG.edges \o cfg.edges, cfg.entry, cfg.outputs)]

\* set_dag: the three fields are assigned, then the response is built.
set_dag(cfg) ==
    [status |-> IF MermaidRaises(cfg) THEN "fault" ELSE "ok",
     dag |-> DAGConfig(cfg.edges, cfg.entry, cfg.outputs)]

(***************************************************************************)
(* run_chain.  A RunRequest is [input_text, strategy, agents, context,     *)
(* batchId]: strategy is Null or Str(s), agents is NullList or List(l),    *)
(* batchId is Null or Str(s).                                              *)
(***************************************************************************)
RunRequest(input_text, strategy, agent_list, context, batchId) ==
    [input_text |-> input_text, strategy |-> strategy, agents |-> agent_list,
     context |-> context, batchId |-> batchId]

\* req.strategy or "auto"
Hint(req) == IF Truthy(req.strategy) THEN req.strategy.s ELSE "auto"

\* {"strategy": req.strategy or "auto", "agents": req.agents or []}
InitialDecision(req) ==
    Object(Str(Hint(req)),
           IF TruthyList(req.agents) THEN req.agents ELSE List(<<>>),
           <<>>)

\* Variant: the router decides for every request, whatever its strategy.
RunDecisionMutAlwaysRoute(reg, req, router_outcome) ==
    Route(req.input_text, DictKeys(reg), router_outcome)

\* The decision after the "auto" branch.
RunDecision(reg, req, router_outcome) ==
    IF Hint(req) = "auto"
    THEN Route(req.input_text, DictKeys(reg), router_outcome)
    ELSE InitialDecision(req)

\* decision.get("strategy") or req.strategy or "single"
StrategyValue(decision, req) ==
    IF Truthy(decision.strategy) THEN decision.strategy
    ELSE IF Truthy(req.strategy) THEN req.strategy
    ELSE Str("single")

\* Variant: the decision's agents are preferred to the request's.
AgentNamesMutDecisionFirst(reg, decision, req) ==
    IF TruthyList(decision.agents) THEN decision.agents
    ELSE IF TruthyList(req.agents) THEN req.agents
    ELSE List(DictKeys(reg))

\* req.agents or decision.get("agents") or available_agents
AgentNames(reg, decision, req) ==
    IF TruthyList(req.agents) THEN req.agents
    ELSE IF TruthyList(decision.agents) THEN decision.agents
    ELSE List(DictKeys(reg))

\* Variant: a strategy that is none of the four is not rejected; a payload
\* that names it is returned and no agent is called.
DispatchMutNoElse(reg, dag, strategy, agent_names, req, oracle) ==
    CASE strategy = "single" ->
             IF agent_names.t = "num"
             THEN Raised("TypeError", <<>>)
             ELSE execute_single(reg, agent_names.l[1], req.input_text,
                                 req.context, oracle)
      [] strategy = "parallel" ->
             execute_parallel(reg, agent_names, req.input_text, req.context, oracle)
      [] strategy = "sequential" ->
             execute_sequential(reg, agent_names, req.input_text, req.context,
                                oracle)
      [] strategy = "branched" ->
             execute_branched(reg, dag, req.input_text, req.context, oracle)
      [] OTHER -> Returned([strategy |-> strategy], <<>>)

\* The if/elif chain on the strategy.
Dispatch(reg, dag, strategy, agent_names, req, oracle) ==
    CASE strategy = "single" ->
             IF agent_names.t = "num"
             THEN Raised("TypeError", <<>>)
             ELSE execute_single(reg, agent_names.l[1], req.input_text,
                                 req.context, oracle)
      [] strategy = "parallel" ->
             execute_parallel(reg, agent_names, req.input_text, req.context, oracle)
      [] strategy = "sequential" ->
             execute_sequential(reg, agent_names, req.input_text, req.context,
                                oracle)
      [] strategy = "branched" ->
             execute_branched(reg, dag, req.input_text, req.context, oracle)
      [] OTHER -> Raised("InvalidStrategy", <<>>)

\* How run_chain ends given the exception (if any) that leaves the handler.
StatusOf(exc) ==
    CASE exc = "" -> "ok"
      [] exc = "NoAvailableAgents" -> "no_available_agents"
      [] exc = "InvalidStrategy" -> "invalid_strategy"
      [] exc = "ValueError" -> "not_found"
      [] OTHER -> "fault"

RunResult(exc, decision, strategy, agent_names, payload, calls, appended) ==
    [status |-> StatusOf(exc), exc |-> exc, decision |-> decision,
     strategy_used |-> strategy, agent_names |-> agent_names,
     payload |-> payload, calls |-> calls, appended |-> appended]

\* The end of the handler, h being what the strategy handler did: the
\* chat-log update of the batch store (outcome store_ok) is made when
\* batchId is set, after the strategy handler has appended its payload.
RunDispatched(req, decision, strategy, agent_names, rcalls, h, store_ok) ==
    IF h.exc # ""
    THEN RunResult(h.exc, decision, strategy, agent_names, NoPayload,
                   rcalls \o h.calls, FALSE)
    ELSE IF Truthy(req.batchId) /\ ~store_ok
    THEN RunResult("StoreError", decision, strategy, agent_names, h.payload,
                   rcalls \o h.calls, TRUE)
    ELSE RunResult("", decision, strategy, agent_names, h.payload,
                   rcalls \o h.calls, TRUE)

\* Variant: the rejection for want of agents leaves a record behind.
RunResolvedMutAppend(reg, dag, req, decision, strategy, agent_names, rcalls, oracle, store_ok) ==
    IF ~TruthyList(agent_names)
    THEN RunResult("NoAvailableAgents", decision, strategy, agent_names,
                   NoPayload, rcalls, TRUE)
    ELSE RunDispatched(req, decision, strategy, agent_names, rcalls,
                       Dispatch(reg, dag, strategy, agent_names, req, oracle),
                       store_ok)

\* From "if not agent_names" on.
RunResolved(reg, dag, req, decision, strategy, agent_names, rcalls, oracle, store_ok) ==
    IF ~TruthyList(agent_names)
    THEN RunResult("NoAvailableAgents", decision, strategy, agent_names,
                   NoPayload, rcalls, FALSE)
    ELSE RunDispatched(req, decision, strategy, agent_names, rcalls,
                       Dispatch(reg, dag, strategy, agent_names, req, oracle),
                       store_ok)

\* From "strategy = (decision.get(...) ...).lower()" on: .get on a value that
\* is no dict and .lower() on a number are AttributeErrors.
RunDecided(reg, dag, req, decision, rcalls, oracle, store_ok) ==
    IF decision.t # "object" \/ StrategyValue(decision, req).t = "num"
    THEN RunResult("AttributeError", decision, "", AbsentList, NoPayload,
                   rcalls, FALSE)
    ELSE RunResolved(reg, dag, req, decision,
                     Lower(StrategyValue(decision, req).s),
                     AgentNames(reg, decision, req), rcalls, oracle, store_ok)

\* The whole handler: [status, exc, decision, strategy_used, agent_names,
\* payload, calls, appended].  appended says that the strategy handler
\* returned, and so appended payload to the history.
run_chain(reg, dag, req, router_outcome, oracle, store_ok) ==
    RunDecided(reg, dag, req, RunDecision(reg, req, router_outcome),
               IF Hint(req) = "auto"
               THEN <<RouteCall(req.input_text, DictKeys(reg), router_outcome)>>
               ELSE <<>>,
               oracle, store_ok)

\* Number of registered names in a list.
Registered(reg, names) == Len(SelectSeq(names, LAMBDA n : DictHas(reg, n)))

\* Number of agent and evaluator calls the strategy handler makes.
DispatchCalls(reg, dag, strategy, agent_names) ==
    IF ~TruthyList(agent_names) \/ agent_names.t = "num" THEN 0
    ELSE CASE strategy = "single" ->
                  IF DictHas(reg, agent_names.l[1]) THEN 1 ELSE 0
           [] strategy = "parallel" -> Registered(reg, agent_names.l) + 1
           [] strategy = "sequential" -> Registered(reg, agent_names.l)
           [] OTHER -> 0

DecidedCalls(reg, dag, req, decision) ==
    IF decision.t # "object" \/ StrategyValue(decision, req).t = "num"
    THEN 0
    ELSE IF Lower(StrategyValue(decision, req).s) = "branched"
    THEN IF TruthyList(AgentNames(reg, decision, req))
         THEN Registered(reg, TopoOrder(dag)) ELSE 0
    ELSE DispatchCalls(reg, dag, Lower(StrategyValue(decision, req).s),
                       AgentNames(reg, decision, req))

\* Number of agent and evaluator calls run_chain makes: the length of the
\* oracle it consumes.
RunCalls(reg, dag, req, router_outcome) ==
    DecidedCalls(reg, dag, req, RunDecision(reg, req, router_outcome))

(***************************************************************************)
(* The state machine.  last is the record of the handler that ran last.    *)
(***************************************************************************)
\* chain = MultiAgentChain(); the default agents added; CURRENT_DAG = DAGConfig()
InitialRegistry ==
    [i \in 1..Len(default_agents) |->
        [k |-> default_agents[i].name, v |-> default_agents[i]]]

EmptyDag == DAGConfig(<<>>, <<>>, <<>>)

Init ==
    /\ agents = InitialRegistry
    /\ execution_history = <<>>
    /\ CURRENT_DAG = EmptyDag
    /\ last = [op |-> "init"]
    /\ inflight = <<>>

CreateAgent(a) ==
    /\ agents' = create_agent(agents, a).agents
    /\ last' = [op |-> "create_agent", status |-> create_agent(agents, a).status,
                name |-> a.name, body |-> a, before |-> agents]
    /\ UNCHANGED <<execution_history, CURRENT_DAG, inflight>>

UpdateAgent(name, data) ==
    /\ agents' = update_agent(agents, name, data).agents
    /\ last' = [op |-> "update_agent", status |-> update_agent(agents, name, data).status,
                name |-> name, body |-> data, before |-> agents]
    /\ UNCHANGED <<execution_history, CURRENT_DAG, inflight>>

DeleteAgent(name) ==
    /\ agents' = delete_agent(agents, name).agents
    /\ last' = [op |-> "delete_agent", status |-> delete_agent(agents, name).status,
                name |-> name, before |-> agents]
    /\ UNCHANGED <<execution_history, CURRENT_DAG, inflight>>

SetDag(cfg) ==
    LET r == set_dag(cfg)
    IN  /\ CURRENT_DAG' = r.dag
        /\ last' = [op |-> "set_dag", status |-> r.status, body |-> cfg]
        /\ UNCHANGED <<agents, execution_history, inflight>>

GetDag ==
    /\ last' = [op |-> "get_dag", status |-> get_dag(CURRENT_DAG).status,
                body |-> get_dag(CURRENT_DAG).body]
    /\ UNCHANGED <<agents, execution_history, CURRENT_DAG, inflight>>

\* The effect of a run_chain that ended as r says.
RunEffect(req, router_outcome, r) ==
    /\ execution_history' =
           IF r.appended THEN Append(execution_history, r.payload)
           ELSE execution_history
    /\ last' = [op |-> "run_chain", req |-> req, status |-> r.status,
                exc |-> r.exc, decision |-> r.decision,
                strategy_used |-> r.strategy_used,
                agent_names |-> r.agent_names, payload |-> r.payload,
                calls |-> r.calls, appended |-> r.appended,
                router_outcome |-> router_outcome,
                before |-> agents]
    /\ UNCHANGED <<agents, CURRENT_DAG, inflight>>

\* One run_chain request; outcomes is the set the backend's outcomes are
\* drawn from.
RunChain(req, router_outcome, store_ok, outcomes) ==
    /\ Len(execution_history) < MaxHistory
    /\ \E oracle \in [1..RunCalls(agents, CURRENT_DAG, req, router_outcome) -> outcomes] :
         RunEffect(req, router_outcome,
                   run_chain(agents, CURRENT_DAG, req, router_outcome, oracle,
                             store_ok))

(***************************************************************************)
(* Spec: the whole system from its initial state, every handler drawing    *)
(* its request from a small set.                                           *)
(***************************************************************************)
Inputs == {<<"x">>}

\* Names the registry requests of Spec use: a default agent and a new one.
SysNames == {"summary", "X"}

SysCreates == {AgentCreate(n, <<"p1">>, DefaultModel, 0) : n \in SysNames}

SysUpdates == {AgentUpdate(Some(<<"p2">>), NoModel, Some(12))}

SysDags ==
    { EmptyDag,
      DAGConfig(<<<<"X", "nobody">>, <<"X">>>>, <<>>, <<"X">>) }

SysRequests ==
    { RunRequest(<<"x">>, Str("single"), List(<<"X">>), "None", Null),
      RunRequest(<<"x">>, Str("sequential"), List(<<"summary", "X">>), "{k: v}", Null),
      RunRequest(<<"x">>, Str("parallel"), List(<<"X">>), "None", Null),
      RunRequest(<<"x">>, Str("branched"), NullList, "None", Null),
      RunRequest(<<"x">>, Str("bogus"), NullList, "None", Null),
      RunRequest(<<"x">>, Null, NullList, "None", Str("b1")) }

SysRouterOutcomes ==
    { RouterFailure(<<"unreachable">>),
      RouterJson(NonObject("list")),
      RouterJson(Object(Str("sequential"), List(<<"X", "diff">>), <<"because">>)) }

\* In Spec every agent and evaluator call succeeds with the same reply; the
\* failures of the backend are the subject of SpecRun.
SysOutcomes == {[ok |-> TRUE, text |-> <<"r1">>]}

\* A router outcome matters only to a request that is routed, and the store's
\* outcome only to one that names a batch: the others take a fixed one.
Relevant(req, router_outcome, store_ok) ==
    /\ Hint(req) # "auto" => router_outcome = RouterFailure(<<"unreachable">>)
    /\ ~Truthy(req.batchId) => store_ok

Next ==
    \/ \E a \in SysCreates : CreateAgent(a)
    \/ \E n \in SysNames, data \in SysUpdates : UpdateAgent(n, data)
    \/ \E n \in SysNames : DeleteAgent(n)
    \/ \E cfg \in SysDags : SetDag(cfg)
    \/ \E req \in SysRequests, ro \in SysRouterOutcomes, store_ok \in BOOLEAN :
           /\ Relevant(req, ro, store_ok)
           /\ RunChain(req, ro, store_ok, SysOutcomes)

Spec == Init /\ [][Next]_vars

(***************************************************************************)
(* SpecRun: one run_chain request, drawn from wide sets, on a registry and *)
(* a DAG descriptor the registry handlers and set_dag can produce (any     *)
(* registry is reachable: delete_agent empties it, create_agent fills it   *)
(* in any order).                                                          *)
(***************************************************************************)
RunNames == {"summary", "diff", "X"}

\* The agent a registry of SpecRun holds under a name: the default agent of
\* that name, or the agent create_agent makes with AgentCreate's defaults.
AgentNamed(n) ==
    IF \E i \in 1..Len(default_agents) : default_agents[i].name = n
    THEN default_agents[CHOOSE i \in 1..Len(default_agents) :
                            default_agents[i].name = n]
    ELSE Agent(n, <<"p1">>, DefaultModel, 0)

RegistryOf(names) == [i \in 1..Len(names) |-> [k |-> names[i], v |-> AgentNamed(names[i])]]

RunRegistries == {RegistryOf(names) : names \in DistinctSeqUpTo(RunNames, 2)}

RunDags ==
    { EmptyDag,
      DAGConfig(<<<<"summary", "X">>, <<"X", "diff">>>>, <<>>, <<"diff">>) }

\* Requests that name their strategy.
ExplicitRequests ==
    { RunRequest(x, Str(st), ag, context, Null) :
        x \in Inputs,
        st \in {"single", "parallel", "sequential", "branched", "PARALLEL", "bogus"},
        ag \in {NullList} \cup {List(l) : l \in SeqUpTo(RunNames, MaxList)},
        context \in Contexts }

\* Requests that are routed.
AutoRequests ==
    { RunRequest(x, st, ag, "None", Null) :
        x \in Inputs,
        st \in {Null, Str(""), Str("auto")},
        ag \in {NullList, List(<<>>), List(<<"X">>), List(<<"diff", "X">>)} }

\* Requests that name a batch.
BatchRequests ==
    { RunRequest(x, Str(st), List(<<"summary">>), "None", Str("b1")) :
        x \in Inputs, st \in {"single", "sequential"} }

Requests == ExplicitRequests \cup AutoRequests \cup BatchRequests

RouterStrategies ==
    { Absent, Null, Str(""), Num, Str("single"), Str("PARALLEL"),
      Str("sequential"), Str("branched"), Str("bogus") }

RouterAgentLists ==
    {AbsentList, NullList, NumList, StrChars(<<"X">>)}
    \cup {List(l) : l \in SeqUpTo(RunNames, MaxList)}

RouterOutcomes ==
    {RouterFailure(d) : d \in Details \cup {<<"unreachable">>}}
    \cup {RouterNotJson}
    \cup {RouterJson(NonObject(t)) : t \in {"list", "num", "str", "null"}}
    \cup {RouterJson(Object(st, ag, <<"because">>)) :
            st \in RouterStrategies, ag \in RouterAgentLists}

InitRun ==
    /\ agents \in RunRegistries
    /\ execution_history = <<>>
    /\ CURRENT_DAG \in RunDags
    /\ last = [op |-> "init"]
    /\ inflight = <<>>

RunOnce ==
    /\ last.op = "init"
    /\ \E req \in Requests, ro \in RouterOutcomes, store_ok \in BOOLEAN :
           /\ Relevant(req, ro, store_ok)
           /\ RunChain(req, ro, store_ok, Outcomes)

SpecRun == InitRun /\ [][RunOnce]_vars

(***************************************************************************)
(* SpecBranched: one run_chain request with strategy "branched" on a       *)
(* registry and a DAG descriptor drawn from a wide set (set_dag installs   *)
(* every descriptor, an edge that is not a pair included).                 *)
(***************************************************************************)
MaxEdges == 3

BranchNames == {"summary", "diff", "X"}

BranchPairs == {<<a, b>> : a, b \in BranchNames}

\* A -> B, A -> C, B -> D, C -> D
Diamond ==
    << <<"summary", "diff">>, <<"summary", "structure">>,
       <<"diff", "X">>, <<"structure", "X">> >>

BranchEdgeLists ==
    SeqUpTo(BranchPairs, MaxEdges)
    \cup { Diamond,
           << <<"summary">>, <<"summary", "diff">> >>,
           << <<"summary", "diff", "X">> >> }

BranchEntries == {<<>>, <<"diff">>, <<"X", "summary">>, <<"nobody", "diff", "diff">>}

BranchOutputs == {<<>>, <<"X">>, <<"summary", "X", "summary">>}

BranchDags ==
    { DAGConfig(edges, entry, outputs) :
        edges \in BranchEdgeLists, entry \in BranchEntries,
        outputs \in BranchOutputs }

BranchRegistries ==
    { RegistryOf(<<>>), RegistryOf(<<"summary">>), RegistryOf(<<"diff", "summary">>) }

BranchRequests ==
    { RunRequest(<<"x">>, Str("branched"), NullList, "None", Null),
      RunRequest(<<"x">>, Str("branched"), List(<<"X">>), "{k: v}", Null) }

BranchOutcomes == {[ok |-> TRUE, text |-> r] : r \in Replies}

InitBranched ==
    /\ agents \in BranchRegistries
    /\ execution_history = <<>>
    /\ CURRENT_DAG \in BranchDags
    /\ last = [op |-> "init"]
    /\ inflight = <<>>

RunBranched ==
    /\ last.op = "init"
    /\ \E req \in BranchRequests :
           RunChain(req, RouterFailure(<<"unreachable">>), TRUE, BranchOutcomes)

SpecBranched == InitBranched /\ [][RunBranched]_vars

(***************************************************************************)
(* SpecDag: the DAG handlers and branched runs from the initial state.     *)
(* The descriptors are cyclic, have a self-loop, a duplicate edge or an    *)
(* edge that is not a pair, with and without entry and outputs.            *)
(***************************************************************************)
DagEdgeLists ==
    { <<>>,
      << <<"summary", "diff">>, <<"diff", "summary">> >>,
      << <<"diff", "diff">>, <<"diff", "X">> >>,
      << <<"summary", "diff">>, <<"summary", "diff">> >>,
      << <<"summary", "diff">>, <<"X">> >> }

DagEntries == {<<>>, <<"summary">>}

DagOutputs == {<<>>, <<"diff">>}

DagConfigs ==
    { DAGConfig(edges, entry, outputs) :
        edges \in DagEdgeLists, entry \in DagEntries, outputs \in DagOutputs }

NextDag ==
    \/ \E cfg \in DagConfigs : SetDag(cfg)
    \/ GetDag
    \/ RunChain(RunRequest(<<"x">>, Str("branched"), NullList, "None", Null),
                RouterFailure(<<"unreachable">>), TRUE, SysOutcomes)

SpecDag == Init /\ [][NextDag]_vars

(***************************************************************************)
(* SpecConc: requests handled concurrently.  The handlers are plain "def"  *)
(* functions, so the server runs each request on a thread of its pool, and *)
(* no handler takes a lock.  A thread switch can fall between any two      *)
(* accesses to chain.agents or chain.execution_history; one access (a      *)
(* membership test, a subscription, a store, a del, list.append) is one    *)
(* step, the interpreter running it without a switch.  What a thread does  *)
(* between two accesses touches only its own locals and is part of the     *)
(* step that follows.  Every backend call succeeds here, with a reply that *)
(* is a function of its prompt.                                            *)
(*                                                                         *)
(* inflight[t] is the request of thread t:                                 *)
(*   kind   create | delete | update | single | sequential | parallel      *)
(*   pc     the access the thread makes next, or "done"                    *)
(*   name   the agent named by a registry request or by execute_single     *)
(*   body, data   the AgentCreate and the AgentUpdate of the request       *)
(*   names, input_text, i, results, steps, current                         *)
(*          the list, the input and the locals of a strategy handler       *)
(*   seen   what the handler found on each access to the registry          *)
(*   status, exc, payload   how the request ended                          *)
(*   seq    the number of the append among the appends made so far         *)
(***************************************************************************)
\* Number of threads that handle a request at the same time.
NThreads == 2

Threads == 1..NThreads

\* The input of the request of thread t.
ThreadInput(t) == <<"x", <<"one", "two", "three", "four">>[t]>>

\* The reply of the backend to a prompt.
ConcOutcome(user_prompt) == [ok |-> TRUE, text |-> <<"reply(">> \o user_prompt \o <<")">>]

NoCreate == AgentCreate("", <<>>, "", 0)

NoUpdate == AgentUpdate(NoText, NoModel, NoTemperature)

Thread(kind, name, body, data, names, input_text) ==
    [kind |-> kind, pc |-> "check", name |-> name, body |-> body, data |-> data,
     names |-> names, input_text |-> input_text, i |-> 1, results |-> <<>>,
     steps |-> <<>>, current |-> input_text, seen |-> <<>>, status |-> "",
     exc |-> "", payload |-> NoPayload, seq |-> 0]

\* The requests a thread may be given.
ThreadRequests(t) ==
    { Thread("create", "X", AgentCreate("X", <<"p1">>, DefaultModel, 0), NoUpdate,
             <<>>, <<>>),
      Thread("create", "X", AgentCreate("X", <<"p2">>, DefaultModel, 12), NoUpdate,
             <<>>, <<>>),
      Thread("delete", "X", NoCreate, NoUpdate, <<>>, <<>>),
      Thread("update", "X", NoCreate, AgentUpdate(Some(<<"p3">>), NoModel, Some(5)),
             <<>>, <<>>),
      Thread("single", "X", NoCreate, NoUpdate, <<"X">>, ThreadInput(t)),
      Thread("sequential", "", NoCreate, NoUpdate, <<"X", "X">>, ThreadInput(t)),
      Thread("parallel", "", NoCreate, NoUpdate, <<"summary", "X">>, ThreadInput(t)) }

ConcRegistries == {RegistryOf(<<"summary">>), RegistryOf(<<"summary", "X">>)}

InitConc ==
    /\ agents \in ConcRegistries
    /\ execution_history = <<>>
    /\ CURRENT_DAG = EmptyDag
    /\ last = [op |-> "init"]
    /\ inflight \in {f \in [Threads -> UNION {ThreadRequests(t) : t \in Threads}] :
                        \A t \in Threads : f[t] \in ThreadRequests(t)}

\* A request ends.
Ended(th, status, exc) == [th EXCEPT !.pc = "done", !.status = status, !.exc = exc]

\* create_agent: "if agent.name in chain.agents: raise HTTPException(400)"
CreateCheck(t) ==
    /\ inflight[t].kind = "create" /\ inflight[t].pc = "check"
    /\ inflight' = [inflight EXCEPT ![t] =
           IF DictHas(agents, inflight[t].body.name)
           THEN Ended(inflight[t], "already_exists", "HTTPException")
           ELSE [inflight[t] EXCEPT !.pc = "add"]]
    /\ UNCHANGED <<agents, execution_history, CURRENT_DAG, last>>

\* create_agent: "chain.add_agent(Agent(...)); return {ok: True}"
CreateAdd(t) ==
    /\ inflight[t].kind = "create" /\ inflight[t].pc = "add"
    /\ agents' = add_agent(agents, Agent(inflight[t].body.name,
                                         inflight[t].body.system_prompt,
                                         inflight[t].body.model,
                                         inflight[t].body.temperature))
    /\ inflight' = [inflight EXCEPT ![t] = Ended(inflight[t], "ok", "")]
    /\ UNCHANGED <<execution_history, CURRENT_DAG, last>>

\* delete_agent: "if name not in chain.agents: raise HTTPException(404)"
DeleteCheck(t) ==
    /\ inflight[t].kind = "delete" /\ inflight[t].pc = "check"
    /\ inflight' = [inflight EXCEPT ![t] =
           IF ~DictHas(agents, inflight[t].name)
           THEN Ended(inflight[t], "not_found", "HTTPException")
           ELSE [inflight[t] EXCEPT !.pc = "remove"]]
    /\ UNCHANGED <<agents, execution_history, CURRENT_DAG, last>>

\* remove_agent: "if name in self.agents:"
RemoveCheck(t) ==
    /\ inflight[t].kind = "delete" /\ inflight[t].pc = "remove"
    /\ inflight' = [inflight EXCEPT ![t] =
           IF DictHas(agents, inflight[t].name)
           THEN [inflight[t] EXCEPT !.pc = "del"]
           ELSE Ended(inflight[t], "ok", "")]
    /\ UNCHANGED <<agents, execution_history, CURRENT_DAG, last>>

\* remove_agent: "del self.agents[name]", a KeyError when the name is gone.
RemoveDel(t) ==
    /\ inflight[t].kind = "delete" /\ inflight[t].pc = "del"
    /\ agents' = remove_agent(agents, inflight[t].name)
    /\ inflight' = [inflight EXCEPT ![t] =
           IF DictHas(agents, inflight[t].name)
           THEN Ended(inflight[t], "ok", "")
           ELSE Ended(inflight[t], "fault", "KeyError")]
    /\ UNCHANGED <<execution_history, CURRENT_DAG, last>>

\* update_agent: "if name not in chain.agents: raise HTTPException(404)"
UpdateCheck(t) ==
    /\ inflight[t].kind = "update" /\ inflight[t].pc = "check"
    /\ inflight' = [inflight EXCEPT ![t] =
           IF ~DictHas(agents, inflight[t].name)
           THEN Ended(inflight[t], "not_found", "HTTPException")
           ELSE [inflight[t] EXCEPT !.pc = "apply"]]
    /\ UNCHANGED <<agents, execution_history, CURRENT_DAG, last>>

\* update_agent: "ag = chain.agents[name]", a KeyError when the name is gone,
\* and the assignments to the fields of ag, taken as one step.
UpdateApply(t) ==
    /\ inflight[t].kind = "update" /\ inflight[t].pc = "apply"
    /\ agents' = IF DictHas(agents, inflight[t].name)
                 THEN DictSet(agents, inflight[t].name,
                              Updated(DictGet(agents, inflight[t].name),
                                      inflight[t].data))
                 ELSE agents
    /\ inflight' = [inflight EXCEPT ![t] =
           IF DictHas(agents, inflight[t].name)
           THEN Ended(inflight[t], "ok", "")
           ELSE Ended(inflight[t], "fault", "KeyError")]
    /\ UNCHANGED <<execution_history, CURRENT_DAG, last>>

RunKinds == {"single", "sequential", "parallel"}

\* The name the handler of thread record th is at.
CurrentName(th) == IF th.kind = "single" THEN th.name ELSE th.names[th.i]

\* The loop of execute_parallel or execute_sequential moves to its next
\* name, or to what follows the loop.
Advance(th) ==
    [th EXCEPT !.i = th.i + 1,
               !.pc = IF th.i + 1 > Len(th.names) THEN "append" ELSE "check"]

\* The membership test of a strategy handler: "if agent_name not in
\* self.agents: raise ValueError" (single), "if name in self.agents:"
\* (parallel), "if name not in self.agents: continue" (sequential).
RunCheckStep(reg, th) ==
    IF DictHas(reg, CurrentName(th))
    THEN [th EXCEPT !.pc = "invoke",
                    !.seen = Append(th.seen, [name |-> CurrentName(th),
                                              present |-> TRUE])]
    ELSE IF th.kind = "single"
    THEN Ended([th EXCEPT !.seen = Append(th.seen, [name |-> CurrentName(th),
                                                    present |-> FALSE])],
               "not_found", "ValueError")
    ELSE Advance([th EXCEPT !.seen = Append(th.seen, [name |-> CurrentName(th),
                                                      present |-> FALSE])])

RunCheck(t) ==
    /\ inflight[t].kind \in RunKinds /\ inflight[t].pc = "check"
    /\ inflight' = [inflight EXCEPT ![t] = RunCheckStep(agents, inflight[t])]
    /\ UNCHANGED <<agents, execution_history, CURRENT_DAG, last>>

\* The result of the agent ag on the input of thread record th.
InvokeResult(ag, th) ==
    AgentExecute(ag, th.current, "None",
                 ConcOutcome(AgentPrompt(th.current, "None")))

\* "self.agents[name].execute(...)": the subscription, a KeyError when the
\* name is gone, then the call and the statements up to the next access.
RunInvokeStep(reg, th) ==
    IF ~DictHas(reg, CurrentName(th))
    THEN Ended([th EXCEPT !.seen = Append(th.seen, [name |-> CurrentName(th),
                                                    present |-> FALSE])],
               "fault", "KeyError")
    ELSE CASE th.kind = "single" ->
                  [th EXCEPT !.pc = "append",
                             !.current = InvokeResult(DictGet(reg, th.name), th)]
           [] th.kind = "sequential" ->
                  Advance([th EXCEPT
                      !.steps = Append(th.steps,
                          [agent |-> CurrentName(th), input |-> th.current,
                           output |-> InvokeResult(DictGet(reg, CurrentName(th)), th)]),
                      !.current = InvokeResult(DictGet(reg, CurrentName(th)), th)])
           [] th.kind = "parallel" ->
                  Advance([th EXCEPT
                      !.results = DictSet(th.results, CurrentName(th),
                          InvokeResult(DictGet(reg, CurrentName(th)), th))])

RunInvoke(t) ==
    /\ inflight[t].kind \in RunKinds /\ inflight[t].pc = "invoke"
    /\ inflight' = [inflight EXCEPT ![t] = RunInvokeStep(agents, inflight[t])]
    /\ UNCHANGED <<agents, execution_history, CURRENT_DAG, last>>

\* The payload the handler of thread record th has built.
ThreadPayload(th) ==
    CASE th.kind = "single" ->
             [strategy |-> "single", agent |-> th.name, result |-> th.current,
              context |-> "None"]
      [] th.kind = "sequential" ->
             [strategy |-> "sequential", agents |-> List(th.names),
              steps |-> th.steps, final_result |-> th.current]
      [] th.kind = "parallel" ->
             [strategy |-> "parallel", agents |-> List(th.names),
              individual_results |-> th.results,
              final_result |->
                  ConcOutcome(EvaluationInput(th.input_text, th.results)).text]

\* Variant: the record takes the place of the last one.
HistoryAppendMutOverwrite(history, payload) ==
    IF history = <<>> THEN <<payload>>
    ELSE [history EXCEPT ![Len(history)] = payload]

\* "self.execution_history.append(payload)": list.append is one call into
\* the interpreter, which no other thread's access to the list interleaves.
HistoryAppend(history, payload) == Append(history, payload)

\* The threads whose append is made.
Appended == {u \in Threads : inflight[u].seq > 0}

RunAppend(t) ==
    /\ inflight[t].kind \in RunKinds /\ inflight[t].pc = "append"
    /\ execution_history' = HistoryAppend(execution_history, ThreadPayload(inflight[t]))
    /\ inflight' = [inflight EXCEPT ![t] =
           [Ended(inflight[t], "ok", "") EXCEPT
               !.payload = ThreadPayload(inflight[t]),
               !.seq = Cardinality(Appended) + 1]]
    /\ UNCHANGED <<agents, CURRENT_DAG, last>>

NextConc ==
    \E t \in Threads :
        \/ CreateCheck(t)
        \/ CreateAdd(t)
        \/ DeleteCheck(t)
        \/ RemoveCheck(t)
        \/ RemoveDel(t)
        \/ UpdateCheck(t)
        \/ UpdateApply(t)
        \/ RunCheck(t)
        \/ RunInvoke(t)
        \/ RunAppend(t)

SpecConc == InitConc /\ [][NextConc]_vars

(***************************************************************************)
(* SpecKahn: a set_dag, then one execute_branched at the level of its      *)
(* loops, on the initial registry and on a descriptor that does not change *)
(* while it runs.  inflight[1] holds the locals of the handler:            *)
(*   pc     build | kahn | exec | finish | done                            *)
(*   indeg, adj, entry, q, seen, order, outputs   as in the source         *)
(*   i        the position of the execution loop in order                  *)
(*   dequeued the number of q.popleft() made                               *)
(* Every agent call returns.  The thread that runs the handler keeps       *)
(* running, which is the fairness of the specification: a step of the      *)
(* handler that stays possible is taken.                                   *)
(***************************************************************************)
KahnInput == <<"x">>

BranchedThread ==
    [kind |-> "branched", pc |-> "build", indeg |-> <<>>, adj |-> <<>>,
     entry |-> <<>>, q |-> <<>>, seen |-> {}, order |-> <<>>, outputs |-> <<>>,
     i |-> 1, dequeued |-> 0, status |-> "", exc |-> "", payload |-> NoPayload]

\* Longest list of edges drawn from all the pairs of names.
MaxKahnEdges == 2

\* Every list of pairs up to that length (self-loops, duplicate edges and
\* two-node cycles included), the diamond, a cycle through three nodes and
\* a cycle entered from outside.
KahnEdgeLists ==
    SeqUpTo(BranchPairs, MaxKahnEdges)
    \cup { Diamond,
           << <<"summary", "diff">>, <<"diff", "X">>, <<"X", "summary">> >>,
           << <<"summary", "diff">>, <<"diff", "X">>, <<"X", "diff">>,
              <<"X", "diff">> >> }

KahnDags ==
    { DAGConfig(edges, entry, outputs) :
        edges \in KahnEdgeLists, entry \in BranchEntries,
        outputs \in {<<>>, <<"X">>} }

InitKahn ==
    /\ agents = InitialRegistry
    /\ execution_history = <<>>
    /\ CURRENT_DAG = EmptyDag
    /\ last = [op |-> "init"]
    /\ inflight = <<BranchedThread>>

\* The descriptor is set once, before the handler starts.
KahnSetDag ==
    /\ last.op = "init"
    /\ inflight[1].pc = "build"
    /\ \E cfg \in KahnDags :
           /\ CURRENT_DAG' = set_dag(cfg).dag
           /\ last' = [op |-> "set_dag", status |-> set_dag(cfg).status, body |-> cfg]
    /\ UNCHANGED <<agents, execution_history, inflight>>

\* The graph is built and the queue is made of the entry.
BuiltStep(th, dag, g) ==
    [th EXCEPT !.pc = "kahn", !.indeg = g.indeg, !.adj = g.adj,
               !.entry = BranchedEntry(dag, g.indeg),
               !.q = BranchedEntry(dag, g.indeg)]

BranchedBuild ==
    /\ inflight[1].pc = "build"
    /\ inflight' = <<BuiltStep(inflight[1], CURRENT_DAG,
                               BuildGraph(DagEdges(CURRENT_DAG), 1, <<>>, <<>>))>>
    /\ UNCHANGED <<agents, execution_history, CURRENT_DAG, last>>

\* One turn of "while q": the head leaves the queue; if it was not seen it
\* is ordered and its successors are relaxed (r is what Relax gives).
DequeuedStep(th, r) ==
    IF Head(th.q) \in th.seen
    THEN [th EXCEPT !.q = Tail(th.q), !.dequeued = th.dequeued + 1]
    ELSE [th EXCEPT !.q = r.q, !.indeg = r.indeg,
                    !.seen = th.seen \cup {Head(th.q)},
                    !.order = Append(th.order, Head(th.q)),
                    !.dequeued = th.dequeued + 1]

KahnDequeue ==
    /\ inflight[1].pc = "kahn"
    /\ Len(inflight[1].q) > 0
    /\ inflight' = <<DequeuedStep(inflight[1],
                        Relax(DictGetOr(inflight[1].adj, Head(inflight[1].q), <<>>),
                              1, inflight[1].indeg, Tail(inflight[1].q)))>>
    /\ UNCHANGED <<agents, execution_history, CURRENT_DAG, last>>

\* The queue is empty: the keys of adj that were not seen are ordered.
KahnExit ==
    /\ inflight[1].pc = "kahn"
    /\ Len(inflight[1].q) = 0
    /\ inflight' = <<[inflight[1] EXCEPT
           !.pc = "exec",
           !.order = inflight[1].order
                       \o SelectSeq(DictKeys(inflight[1].adj),
                                    LAMBDA n : n \notin inflight[1].seen)]>>
    /\ UNCHANGED <<agents, execution_history, CURRENT_DAG, last>>

\* One turn of "for name in order".
ExecutedStep(reg, th) ==
    [th EXCEPT
        !.i = th.i + 1,
        !.outputs =
            DictSet(th.outputs, th.order[th.i],
                    IF ~DictHas(reg, th.order[th.i])
                    THEN SkippedMarker(th.order[th.i])
                    ELSE AgentExecute(DictGet(reg, th.order[th.i]), KahnInput, "None",
                                      ConcOutcome(AgentPrompt(KahnInput, "None"))))]

BranchedExec ==
    /\ inflight[1].pc = "exec"
    /\ inflight[1].i <= Len(inflight[1].order)
    /\ inflight' = <<ExecutedStep(agents, inflight[1])>>
    /\ UNCHANGED <<agents, execution_history, CURRENT_DAG, last>>

\* The payload of the handler, when every name of dag.outputs has an output.
BranchedPayload(th, dag) ==
    [strategy |-> "branched", topo_order |-> th.order, edges |-> DagEdges(dag),
     entry |-> th.entry, outputs |-> th.outputs,
     final_result |-> IF Len(dag.outputs) > 0
                      THEN FilterOutputs(dag.outputs, 1, th.outputs, <<>>)
                      ELSE th.outputs]

\* The names of dag.outputs all have an output.
OutputsPresent(th, dag) ==
    \A k \in 1..Len(dag.outputs) : DictHas(th.outputs, dag.outputs[k])

\* After the loop: final_out, a KeyError when a name of dag.outputs has no
\* output, then the payload and its append.
BranchedFinish ==
    /\ inflight[1].pc = "exec"
    /\ inflight[1].i > Len(inflight[1].order)
    /\ IF OutputsPresent(inflight[1], CURRENT_DAG)
       THEN /\ execution_history' =
                   HistoryAppend(execution_history,
                                 BranchedPayload(inflight[1], CURRENT_DAG))
            /\ inflight' = <<[Ended(inflight[1], "ok", "") EXCEPT
                                 !.payload = BranchedPayload(inflight[1], CURRENT_DAG)]>>
       ELSE /\ execution_history' = execution_history
            /\ inflight' = <<Ended(inflight[1], "fault", "KeyError")>>
    /\ UNCHANGED <<agents, CURRENT_DAG, last>>

\* A step of the handler.
BranchedStep ==
    \/ BranchedBuild
    \/ KahnDequeue
    \/ KahnExit
    \/ BranchedExec
    \/ BranchedFinish

NextKahn == KahnSetDag \/ BranchedStep

SpecKahn == InitKahn /\ [][NextKahn]_vars /\ WF_vars(BranchedStep)

(***************************************************************************)
(* Properties.  In SpecRun last.before is the registry the request ran on. *)
(***************************************************************************)
IsRun == last.op = "run_chain"

\* The agent calls of a call log, in call order.
AgentCallsOf(calls) == SelectSeq(calls, LAMBDA c : c.who = "agent")
EvalCallsOf(calls) == SelectSeq(calls, LAMBDA c : c.who = "eval")

\* The names of a list that are registered, in list order.
RegisteredOf(reg, names) == SelectSeq(names, LAMBDA n : DictHas(reg, n))

\* C1: create_agent with a name that is already registered is rejected
\* (already_exists) and leaves the registry exactly as it was; and the
\* registry never holds two agents under one name.
C1_AddDuplicateRejected ==
    /\ DictWellFormed(agents)
    /\ \A i \in 1..Len(agents) : agents[i].v.name = agents[i].k
    /\ (last.op = "create_agent" /\ DictHas(last.before, last.name)) =>
           (last.status = "already_exists" /\ agents = last.before)

\* A create_agent on a registered name whose body differs from the agent
\* registered under it.
C1_Witness ==
    /\ last.op = "create_agent"
    /\ DictHas(last.before, last.name)
    /\ DictGet(last.before, last.name).system_prompt # last.body.system_prompt

\* C2: update_agent and delete_agent on a name that is not registered
\* return not_found and leave the registry unchanged (update creates
\* nothing); delete_agent on a registered name removes that entry and keeps
\* every other entry, in order.
C2_MissingNameNotFound ==
    /\ (last.op \in {"update_agent", "delete_agent"}
           /\ ~DictHas(last.before, last.name)) =>
           (last.status = "not_found" /\ agents = last.before)
    /\ (last.op = "delete_agent" /\ DictHas(last.before, last.name)) =>
           /\ last.status = "ok"
           /\ ~DictHas(agents, last.name)
           /\ Len(agents) = Len(last.before) - 1
           /\ \A i \in 1..Len(last.before) :
                  last.before[i].k # last.name =>
                      \E j \in 1..Len(agents) :
                          /\ agents[j] = last.before[i]
                          /\ j = Cardinality({h \in 1..i :
                                                 last.before[h].k # last.name})

\* An update_agent on a name that is not registered.
C2_Witness ==
    /\ last.op = "update_agent"
    /\ ~DictHas(last.before, last.name)

\* C3: Agent.execute returns the backend's text when the call succeeds and,
\* when it fails, a text holding the agent's name, an error indicator and
\* the failure detail; the failure does not leave execute: a single or
\* sequential run whose agents fail still returns its payload.
C3_AgentExecuteNeverRaises ==
    IsRun =>
        /\ \A i \in 1..Len(last.calls) :
               LET c == last.calls[i]
               IN  c.who = "agent" =>
                       IF c.outcome.ok
                       THEN c.result = c.outcome.text
                       ELSE /\ Contains(c.result, <<c.agent>>)
                            /\ Contains(c.result, <<" execution error: ">>)
                            /\ Contains(c.result, c.outcome.text)
        /\ (last.strategy_used = "single" /\ Len(last.calls) > 0
               /\ last.calls[Len(last.calls)].who = "agent") =>
               /\ last.appended
               /\ last.payload.result = last.calls[Len(last.calls)].result
               /\ ~last.calls[Len(last.calls)].outcome.ok =>
                      Contains(last.payload.result, <<last.payload.agent>>)

\* A single run whose agent's backend call failed.
C3_Witness ==
    /\ IsRun
    /\ last.strategy_used = "single"
    /\ Len(last.calls) > 0
    /\ ~last.calls[Len(last.calls)].outcome.ok
    /\ ContextTruthy(last.req.context)

\* C4: when the routing call fails, or its reply is not JSON, route returns
\* strategy "single", agents = [the first registered name] (empty when the
\* registry is empty) and a non-empty reasoning, which in the call-failure
\* case holds the failure detail.
C4_RouterFallback ==
    (IsRun /\ Hint(last.req) = "auto"
        /\ (~last.router_outcome.ok \/ ~last.router_outcome.json)) =>
        /\ last.decision.t = "object"
        /\ last.decision.strategy = Str("single")
        /\ last.decision.agents =
               List(IF Len(last.before) = 0 THEN <<>> ELSE <<last.before[1].k>>)
        /\ Len(last.decision.reasoning) > 0
        /\ ~last.router_outcome.ok =>
               Contains(last.decision.reasoning, last.router_outcome.text)

\* A routed request whose routing call failed, on a non-empty registry.
C4_Witness ==
    /\ IsRun
    /\ Hint(last.req) = "auto"
    /\ ~last.router_outcome.ok
    /\ Len(last.before) > 1

\* C5: whatever the routing call does, the decision route returns is an
\* object with a string strategy and a list of agent names.
C5_RouterDecisionUsable ==
    (IsRun /\ Hint(last.req) = "auto") =>
        /\ last.decision.t = "object"
        /\ last.decision.strategy.t = "str"
        /\ last.decision.agents.t = "list"

\* C6: a routed run never ends in an unhandled fault because of the shape
\* of the decision (an AttributeError or TypeError): it returns or is
\* rejected as not found, invalid strategy or no available agents.
C6_RunFailsGracefully ==
    (IsRun /\ Hint(last.req) = "auto") =>
        last.exc \notin {"AttributeError", "TypeError"}

\* A sequential payload was produced by the last request.
IsSequential == IsRun /\ last.appended /\ last.payload.strategy = "sequential"

\* A parallel payload was produced by the last request.
IsParallel == IsRun /\ last.appended /\ last.payload.strategy = "parallel"

\* Step k takes the output of step k-1, the first step the request's input.
Chained(steps, x) ==
    \A k \in 1..Len(steps) :
        steps[k].input = IF k = 1 THEN x ELSE steps[k - 1].output

\* C7: when every name of the list is registered, execute_sequential makes
\* one step per name in list order, step 1 takes the request's input, step
\* k > 1 takes the output of step k-1, and final_result is the output of the
\* last step; the output of a step is what its agent returned for that input.
C7_SequentialChaining ==
    (IsSequential
        /\ \A i \in 1..Len(last.agent_names.l) :
               DictHas(last.before, last.agent_names.l[i])) =>
        LET steps == last.payload.steps
            names == last.agent_names.l
            acalls == AgentCallsOf(last.calls)
        IN  /\ Len(steps) = Len(names)
            /\ Len(acalls) = Len(names)
            /\ \A k \in 1..Len(steps) :
                   /\ steps[k].agent = names[k]
                   /\ acalls[k].agent = names[k]
                   /\ acalls[k].user_prompt =
                          AgentPrompt(steps[k].input, last.req.context)
                   /\ steps[k].output = acalls[k].result
            /\ Chained(steps, last.req.input_text)
            /\ Len(steps) > 0 =>
                   last.payload.final_result = steps[Len(steps)].output

\* A chain of two registered agents whose first output is not the input.
C7_Witness ==
    /\ IsSequential
    /\ Len(last.agent_names.l) = 2
    /\ Len(last.payload.steps) = 2
    /\ last.payload.steps[1].output # last.req.input_text
    /\ last.payload.steps[2].output # last.payload.steps[1].output

\* C8: execute_sequential makes a step for exactly the registered names of
\* the list, in list order; an unregistered name makes no step and leaves
\* the threaded input as it is; with no registered name there is no step,
\* final_result is the request's input, and the record is still appended.
C8_SequentialSkip ==
    IsSequential =>
        LET steps == last.payload.steps
            regd == RegisteredOf(last.before, last.agent_names.l)
        IN  /\ Len(steps) = Len(regd)
            /\ \A k \in 1..Len(steps) : steps[k].agent = regd[k]
            /\ Chained(steps, last.req.input_text)
            /\ last.payload.final_result =
                   IF Len(steps) = 0 THEN last.req.input_text
                   ELSE steps[Len(steps)].output
            /\ Len(AgentCallsOf(last.calls)) = Len(steps)
            /\ execution_history = <<last.payload>>

\* An unregistered name ahead of a registered one.
C8_Witness ==
    /\ IsSequential
    /\ Len(last.agent_names.l) = 2
    /\ ~DictHas(last.before, last.agent_names.l[1])
    /\ Len(last.payload.steps) = 1

\* No name of the list is registered.
C8_WitnessNoAgent ==
    /\ IsSequential
    /\ Len(last.agent_names.l) > 0
    /\ Len(last.payload.steps) = 0

\* C9: the keys of individual_results are exactly the names of the list
\* that are registered; the agents are called in list order (an
\* unregistered name is passed over), each with the request's input and
\* context; every entry is what the last call of that agent returned.
C9_ParallelCompleteness ==
    (IsRun /\ last.strategy_used = "parallel" /\ last.agent_names.t # "num"
        /\ last.exc \in {"", "StoreError", "BackendError"}) =>
        LET names == last.agent_names.l
            acalls == AgentCallsOf(last.calls)
        IN  /\ [k \in 1..Len(acalls) |-> acalls[k].agent] =
                   RegisteredOf(last.before, names)
            /\ \A k \in 1..Len(acalls) :
                   acalls[k].user_prompt =
                       AgentPrompt(last.req.input_text, last.req.context)
            /\ last.appended =>
                   /\ DictWellFormed(last.payload.individual_results)
                   /\ DictKeySet(last.payload.individual_results) =
                          {n \in Range(names) : DictHas(last.before, n)}
                   /\ \A k \in 1..Len(acalls) :
                          (\A h \in (k + 1)..Len(acalls) :
                               acalls[h].agent # acalls[k].agent) =>
                              DictGet(last.payload.individual_results,
                                      acalls[k].agent) = acalls[k].result

\* A parallel run over a registered and an unregistered name.
C9_Witness ==
    /\ IsParallel
    /\ Len(last.agent_names.l) = 2
    /\ Len(last.payload.individual_results) = 1
    /\ \E i \in 1..2 : ~DictHas(last.before, last.agent_names.l[i])

\* C10: a parallel execution makes exactly one evaluator call, after the
\* call of every registered agent of the list; its prompt holds the
\* request's input and, for every entry of individual_results, the block
\* of that agent's name and result.
C10_ParallelMergeLast ==
    (IsRun /\ last.strategy_used = "parallel" /\ last.agent_names.t # "num"
        /\ last.exc \in {"", "StoreError", "BackendError"}) =>
        LET n == Len(last.calls)
        IN  /\ Len(EvalCallsOf(last.calls)) = 1
            /\ last.calls[n].who = "eval"
            /\ Len(AgentCallsOf(last.calls)) =
                   Len(RegisteredOf(last.before, last.agent_names.l))
            /\ Contains(last.calls[n].user_prompt, last.req.input_text)
            /\ last.appended =>
                   /\ last.payload.final_result = last.calls[n].outcome.text
                   /\ \A i \in 1..Len(last.payload.individual_results) :
                          LET e == last.payload.individual_results[i]
                          IN  Contains(last.calls[n].user_prompt,
                                       <<"\n=== ", e.k, " ===\n">> \o e.v)

\* A parallel run of two registered agents with different results.
C10_Witness ==
    /\ IsParallel
    /\ Len(last.payload.individual_results) = 2
    /\ last.payload.individual_results[1].v # last.payload.individual_results[2].v

(***************************************************************************)
(* Properties of execute_branched.  The graph of a descriptor is read off  *)
(* its edges here, independently of BuildGraph and Kahn.                   *)
(***************************************************************************)
\* A branched payload was produced by the last request.
IsBranched == IsRun /\ last.appended /\ last.payload.strategy = "branched"

\* The last request reached execute_branched (which may have raised).
BranchedDispatched ==
    /\ IsRun
    /\ last.strategy_used = "branched"
    /\ last.exc \notin {"NoAvailableAgents", "AttributeError"}

\* The edges of the descriptor that are pairs, as a set.
EdgeSet(dag) == {e \in Range(dag.edges) : Len(e) = 2}

\* The names that are the source or the destination of an edge.
NodeSet(dag) == {e[1] : e \in EdgeSet(dag)} \cup {e[2] : e \in EdgeSet(dag)}

Successors(E, S) == {e[2] : e \in {f \in E : f[1] \in S}}

RECURSIVE ReachFrom(_, _, _)
\* The nodes reached from S in at most k further steps.
ReachFrom(E, S, k) ==
    IF k = 0 THEN S ELSE ReachFrom(E, S \cup Successors(E, S), k - 1)

\* No node reaches itself along one or more edges.
Acyclic(dag) ==
    \A n \in NodeSet(dag) :
        n \notin ReachFrom(EdgeSet(dag), Successors(EdgeSet(dag), {n}),
                            Cardinality(NodeSet(dag)))

\* Every occurrence of u in the order is before every occurrence of v, and
\* both occur.
Before(order, u, v) ==
    /\ \E i \in 1..Len(order) : order[i] = u
    /\ \E j \in 1..Len(order) : order[j] = v
    /\ \A i, j \in 1..Len(order) : (order[i] = u /\ order[j] = v) => i < j

\* C11: for an acyclic edge set (duplicate edges allowed) and no explicit
\* entry, topo_order places the source of every edge strictly before its
\* destination.
C11_TopoOrderValid ==
    (IsBranched /\ Len(CURRENT_DAG.entry) = 0 /\ Acyclic(CURRENT_DAG)) =>
        \A e \in EdgeSet(CURRENT_DAG) :
            Before(last.payload.topo_order, e[1], e[2])

\* The diamond A -> B, A -> C, B -> D, C -> D with no explicit entry: the
\* entry is A alone and D is last.
C11_Witness ==
    /\ IsBranched
    /\ CURRENT_DAG.edges = Diamond
    /\ Len(CURRENT_DAG.entry) = 0
    /\ last.payload.entry = <<"summary">>
    /\ Len(last.payload.topo_order) = 4
    /\ last.payload.topo_order[4] = "X"

\* C12: for every descriptor, cyclic or not, with or without an explicit
\* entry, every name that is the source or the destination of an edge is in
\* topo_order and has an entry in the outputs map: a node the Kahn pass did
\* not visit is appended afterwards, never dropped.
C12_NoSilentDrop ==
    IsBranched =>
        \A n \in NodeSet(CURRENT_DAG) :
            /\ n \in Range(last.payload.topo_order)
            /\ DictHas(last.payload.outputs, n)

\* C13: in a branched execution every registered node of topo_order is
\* called, in that order, with the request's input and context; no call
\* takes the output of another node, whatever the edges are.
C13_BranchedFanOut ==
    BranchedDispatched =>
        LET acalls == AgentCallsOf(last.calls)
        IN  /\ EvalCallsOf(last.calls) = <<>>
            /\ \A k \in 1..Len(acalls) :
                   acalls[k].user_prompt =
                       AgentPrompt(last.req.input_text, last.req.context)
            /\ IsBranched =>
                   [k \in 1..Len(acalls) |-> acalls[k].agent] =
                       RegisteredOf(last.before, last.payload.topo_order)

\* Two registered nodes joined by an edge ran, the first with an output that
\* is not the input, under a context.
C13_Witness ==
    /\ IsBranched
    /\ Len(last.calls) = 2
    /\ <<last.calls[1].agent, last.calls[2].agent>> \in EdgeSet(CURRENT_DAG)
    /\ last.calls[1].result # last.req.input_text
    /\ ContextTruthy(last.req.context)

\* The names a descriptor mentions: in its pair edges, its entry list or its
\* outputs list.
Mentioned(dag) == NodeSet(dag) \cup Range(dag.entry) \cup Range(dag.outputs)

\* C14: a descriptor that mentions a name that is not registered is no
\* error: the branched execution returns, and the name's value in the
\* outputs map is the skipped marker.
C14_UnknownNamesSkipped ==
    BranchedDispatched =>
        /\ last.exc = ""
        /\ \A n \in Mentioned(CURRENT_DAG) :
               ~DictHas(last.before, n) =>
                   /\ DictHas(last.payload.outputs, n)
                   /\ DictGet(last.payload.outputs, n) = SkippedMarker(n)

\* C15: every branched execution returns a payload; when the descriptor's
\* outputs list is empty, final_result is the whole outputs map, which has
\* one entry per node of topo_order; when it is not, final_result has one
\* entry for each name of the outputs list, equal to that name's entry in
\* the outputs map, and nothing else.
C15_BranchedFinalResult ==
    BranchedDispatched =>
        /\ IsBranched
        /\ Len(CURRENT_DAG.outputs) = 0 =>
               /\ last.payload.final_result = last.payload.outputs
               /\ DictKeys(last.payload.outputs) = last.payload.topo_order
        /\ Len(CURRENT_DAG.outputs) > 0 =>
               /\ DictWellFormed(last.payload.final_result)
               /\ DictKeySet(last.payload.final_result) = Range(CURRENT_DAG.outputs)
               /\ \A n \in Range(CURRENT_DAG.outputs) :
                      /\ DictHas(last.payload.outputs, n)
                      /\ DictGet(last.payload.final_result, n) =
                             DictGet(last.payload.outputs, n)

\* The list without its repeated elements, first occurrences kept.
Dedup(l) ==
    LET first == SelectSeq([i \in 1..Len(l) |-> i],
                           LAMBDA i : \A j \in 1..(i - 1) : l[j] # l[i])
    IN  [k \in 1..Len(first) |-> l[first[k]]]

\* The first n elements of a list.
Prefix(l, n) == [i \in 1..n |-> l[i]]

\* The nodes of the descriptor no pair edge leads to.
ZeroInDegree(dag) ==
    {n \in NodeSet(dag) : \A e \in EdgeSet(dag) : e[2] # n}

\* C16: with a non-empty entry list the entry reported is that list, in
\* order; with an empty one it is the nodes whose in-degree is zero, each
\* once (none when every node is on a cycle or there is no edge).  The ready
\* queue is seeded with it: topo_order starts with the entry, in order.
C16_BranchedEntry ==
    IsBranched =>
        /\ Len(CURRENT_DAG.entry) > 0 =>
               last.payload.entry = CURRENT_DAG.entry
        /\ Len(CURRENT_DAG.entry) = 0 =>
               /\ Range(last.payload.entry) = ZeroInDegree(CURRENT_DAG)
               /\ Len(last.payload.entry) = Cardinality(ZeroInDegree(CURRENT_DAG))
        /\ Len(Dedup(last.payload.entry)) <= Len(last.payload.topo_order)
        /\ Dedup(last.payload.entry) =
               Prefix(last.payload.topo_order, Len(Dedup(last.payload.entry)))

\* An explicit entry of two names that is not the in-degree-zero set.
C16_Witness ==
    /\ IsBranched
    /\ Len(CURRENT_DAG.entry) = 2
    /\ Range(CURRENT_DAG.entry) # ZeroInDegree(CURRENT_DAG)
    /\ ZeroInDegree(CURRENT_DAG) # {}
    /\ last.payload.topo_order[1] = CURRENT_DAG.entry[1]

(***************************************************************************)
(* Properties of the history.                                              *)
(***************************************************************************)
\* C17: the history grows by exactly the payload of every run_chain that
\* succeeds and by nothing else: no handler (run_chain, create_agent,
\* update_agent, delete_agent, set_dag) removes, reorders or changes a
\* record, and a request that does not succeed adds none, so after N
\* successful requests the history is their N payloads in call order.
C17_HistoryAppendOnly ==
    [][IF last'.op = "run_chain" /\ last'.status = "ok"
       THEN execution_history' = Append(execution_history, last'.payload)
       ELSE execution_history' = execution_history]_vars

\* The entries a record of each strategy has for the agent(s) involved and
\* for their output(s).
RecordFields(strategy) ==
    CASE strategy = "single" -> {"agent", "result"}
      [] strategy = "parallel" -> {"agents", "individual_results"}
      [] strategy = "sequential" -> {"agents", "steps"}
      [] strategy = "branched" -> {"topo_order", "outputs"}
      [] OTHER -> {"none"}

\* A record names its strategy, the agent(s) involved and their output(s).
RecordNamesAgentsAndOutputs(record) ==
    /\ "strategy" \in DOMAIN record
    /\ record.strategy \in {"single", "parallel", "sequential", "branched"}
    /\ RecordFields(record.strategy) \subseteq DOMAIN record

\* C18 as stated: every record of the history, whatever strategy produced
\* it, has a strategy entry, the agent(s) involved, the per-agent output(s)
\* and a final_result entry.
C18_RecordHasFinalResult ==
    \A i \in 1..Len(execution_history) :
        /\ RecordNamesAgentsAndOutputs(execution_history[i])
        /\ "final_result" \in DOMAIN execution_history[i]

\* C18: every record of the history has a strategy entry, the agent(s)
\* involved and the per-agent output(s); the records of parallel, sequential
\* and branched have a final_result entry, and the record of single has
\* none: its one output is its result entry.
C18_RecordFields ==
    \A i \in 1..Len(execution_history) :
        /\ RecordNamesAgentsAndOutputs(execution_history[i])
        /\ "final_result" \in DOMAIN execution_history[i]
               <=> execution_history[i].strategy # "single"

\* The history holds a record of single and a record of another strategy.
C18_Witness ==
    /\ \E i \in 1..Len(execution_history) :
           execution_history[i].strategy = "single"
    /\ \E i \in 1..Len(execution_history) :
           execution_history[i].strategy \in {"parallel", "sequential", "branched"}

(***************************************************************************)
(* Properties of run_chain's dispatch.                                     *)
(***************************************************************************)
\* The last request reached execute_single: the strategy is "single" and
\* the resolved agent list is a non-empty sequence.
SingleDispatched ==
    /\ IsRun
    /\ last.strategy_used = "single"
    /\ last.exc \notin {"NoAvailableAgents", "AttributeError", "TypeError"}

\* C19: execute_single on a name that is not registered fails as not found
\* and calls no agent; on a registered name it makes exactly one call, of
\* that agent with the request's input and context, and its result is
\* {strategy: "single", agent, result, context}.  run_chain passes it the
\* first name of the resolved agent list.
C19_Single ==
    SingleDispatched =>
        LET target == last.agent_names.l[1]
            acalls == AgentCallsOf(last.calls)
        IN  /\ EvalCallsOf(last.calls) = <<>>
            /\ ~DictHas(last.before, target) =>
                   /\ last.status = "not_found"
                   /\ acalls = <<>>
                   /\ ~last.appended
            /\ DictHas(last.before, target) =>
                   /\ last.appended
                   /\ Len(acalls) = 1
                   /\ acalls[1].agent = target
                   /\ acalls[1].system_prompt =
                          DictGet(last.before, target).system_prompt
                   /\ acalls[1].user_prompt =
                          AgentPrompt(last.req.input_text, last.req.context)
                   /\ last.payload =
                          [strategy |-> "single", agent |-> target,
                           result |-> acalls[1].result,
                           context |-> last.req.context]

\* Of a list of two registered names the first is called, under a context.
C19_Witness ==
    /\ SingleDispatched
    /\ Len(last.agent_names.l) = 2
    /\ last.agent_names.l[1] # last.agent_names.l[2]
    /\ DictHas(last.before, last.agent_names.l[1])
    /\ DictHas(last.before, last.agent_names.l[2])
    /\ ContextTruthy(last.req.context)
    /\ last.status = "ok"

\* The first name of the list is not registered while the second is.
C19_WitnessNotFound ==
    /\ SingleDispatched
    /\ Len(last.agent_names.l) = 2
    /\ ~DictHas(last.before, last.agent_names.l[1])
    /\ DictHas(last.before, last.agent_names.l[2])
    /\ last.status = "not_found"

\* A list value that yields no name: absent, null or empty.
YieldsNone(v) == v.t \in {"absent", "null"} \/ (v.t \in {"list", "str"} /\ v.l = <<>>)

C20_WitnessDecided ==
    /\ IsRun
    /\ last.status = "ok"
    /\ YieldsNone(last.req.agents)
    /\ last.agent_names = last.decision.agents
    /\ last.agent_names.t = "list"
    /\ last.agent_names.l # DictKeys(last.before)
    /\ last.before # <<>>

\* The four strategies run_chain dispatches.
ConcreteStrategies == {"single", "parallel", "sequential", "branched"}

\* The last request reached the if/elif chain on the strategy: its decision
\* gave a strategy token and its agent list was not empty.
ReachedDispatch ==
    /\ IsRun
    /\ last.exc \notin {"AttributeError", "NoAvailableAgents"}

\* The strategy token before lower-casing: the decision's, else the
\* request's, else "single".
StrategyToken ==
    IF last.decision.strategy.t = "str" /\ last.decision.strategy.s # ""
    THEN last.decision.strategy.s
    ELSE IF last.req.strategy.t = "str" /\ last.req.strategy.s # ""
    THEN last.req.strategy.s
    ELSE "single"

\* C21: a request that reaches dispatch is rejected as invalid strategy
\* exactly when its lower-cased strategy token, the caller's or the
\* router's, is none of single, parallel, sequential, branched; then no
\* agent or evaluator is called and nothing is appended.
C21_InvalidStrategy ==
    ReachedDispatch =>
        /\ last.strategy_used = Lower(StrategyToken)
        /\ last.status = "invalid_strategy"
               <=> last.strategy_used \notin ConcreteStrategies
        /\ last.status = "invalid_strategy" =>
               /\ AgentCallsOf(last.calls) = <<>>
               /\ EvalCallsOf(last.calls) = <<>>
               /\ ~last.appended
               /\ last.payload = NoPayload

\* The router's decision names a strategy that is none of the four, on a
\* registry that holds agents.
C21_Witness ==
    /\ ReachedDispatch
    /\ last.status = "invalid_strategy"
    /\ Hint(last.req) = "auto"
    /\ last.decision.strategy.t = "str"
    /\ last.decision.strategy.s = "bogus"
    /\ last.before # <<>>

\* An upper-case token that is valid once lower-cased is dispatched.
C21_WitnessLowered ==
    /\ ReachedDispatch
    /\ StrategyToken = "PARALLEL"
    /\ last.strategy_used = "parallel"
    /\ last.status = "ok"

\* The router calls of a call log, in call order.
RouteCallsOf(calls) == SelectSeq(calls, LAMBDA c : c.who = "route")

\* C22: the router is called exactly once when the request's strategy is
\* "auto" or absent and not at all otherwise, and its call comes before
\* every agent call; a request that is not routed keeps the decision built
\* from the request; a run that returns reports one of the four concrete
\* strategies, its payload is the payload of the handler of that strategy
\* and of no other (the evaluator is called once by parallel and never by
\* the others), and one record is appended.
C22_AutoResolution ==
    IsRun =>
        /\ Len(RouteCallsOf(last.calls)) = (IF Hint(last.req) = "auto" THEN 1 ELSE 0)
        /\ Hint(last.req) = "auto" =>
               /\ last.calls[1].who = "route"
               /\ last.calls[1].outcome = [ok |-> last.router_outcome.ok,
                                           text |-> last.router_outcome.text]
        /\ Hint(last.req) # "auto" => last.decision = InitialDecision(last.req)
        /\ last.status = "ok" =>
               /\ last.strategy_used \in ConcreteStrategies
               /\ last.strategy_used # "auto"
               /\ last.payload.strategy = last.strategy_used
               /\ last.appended
               /\ Len(EvalCallsOf(last.calls)) =
                      (IF last.strategy_used = "parallel" THEN 1 ELSE 0)

\* A request without a strategy is routed, the router names "PARALLEL" and
\* the parallel handler runs two agents and the evaluator after the router.
C22_Witness ==
    /\ IsRun
    /\ last.req.strategy = Null
    /\ last.status = "ok"
    /\ last.decision.strategy = Str("PARALLEL")
    /\ last.strategy_used = "parallel"
    /\ Len(AgentCallsOf(last.calls)) = 2
    /\ last.calls[1].who = "route"

\* A request with an explicit strategy runs agents and the router is not
\* called.
C22_WitnessExplicit ==
    /\ IsRun
    /\ last.req.strategy = Str("sequential")
    /\ last.status = "ok"
    /\ Len(AgentCallsOf(last.calls)) = 2
    /\ RouteCallsOf(last.calls) = <<>>

\* The three rejections of run_chain.
Rejections == {"not_found", "invalid_strategy", "no_available_agents"}

\* C27: a run_chain that ends with a not-found, invalid-strategy or
\* no-available-agents rejection is a step that leaves the history, the
\* registry and the DAG descriptor as they were.
C27_RejectedRunChangesNothing ==
    [][(last'.op = "run_chain" /\ last'.status \in Rejections) =>
           /\ execution_history' = execution_history
           /\ agents' = agents
           /\ CURRENT_DAG' = CURRENT_DAG
           /\ ~last'.appended]_vars

\* A single run on a name that is not registered, on a registry that holds
\* other agents.
C27_Witness ==
    /\ IsRun
    /\ last.status = "not_found"
    /\ last.before # <<>>

\* The two other rejections.
C27_WitnessNoAgents == IsRun /\ last.status = "no_available_agents"

C27_WitnessInvalid == IsRun /\ last.status = "invalid_strategy"

\* The evaluator call of the last run, if it made one, failed.
EvaluatorFailed ==
    /\ IsRun
    /\ EvalCallsOf(last.calls) # <<>>
    /\ ~EvalCallsOf(last.calls)[1].outcome.ok

\* C28: when the evaluator call of a parallel run fails, the failure leaves
\* the handler as an exception (it is not made the text of a result), no
\* record is appended, and every registered name of the list has been
\* called before it, an agent's own failure having become its result.
C28_EvaluatorFailure ==
    EvaluatorFailed =>
        /\ last.strategy_used = "parallel"
        /\ last.exc = "BackendError"
        /\ last.status = "fault"
        /\ ~last.appended
        /\ last.payload = NoPayload
        /\ execution_history = <<>>
        /\ last.calls[Len(last.calls)].who = "eval"
        /\ [i \in 1..Len(AgentCallsOf(last.calls)) |->
               AgentCallsOf(last.calls)[i].agent]
             = RegisteredOf(last.before, last.agent_names.l)
        /\ \A i \in 1..Len(AgentCallsOf(last.calls)) :
               ~AgentCallsOf(last.calls)[i].outcome.ok =>
                   AgentCallsOf(last.calls)[i].result
                     = AgentErrorText(AgentCallsOf(last.calls)[i].agent,
                                      AgentCallsOf(last.calls)[i].outcome.text)

\* Two registered agents were called, one of them failed, and then the
\* evaluator failed.
C28_Witness ==
    /\ EvaluatorFailed
    /\ Len(AgentCallsOf(last.calls)) = 2
    /\ \E i \in 1..2 : ~AgentCallsOf(last.calls)[i].outcome.ok
    /\ \E i \in 1..2 : AgentCallsOf(last.calls)[i].outcome.ok

\* C29: the topo_order of a branched record holds no name twice, and the
\* outputs map has one entry for each of its names, in the same order.
C29_TopoOrderDistinct ==
    IsBranched =>
        /\ \A i, j \in 1..Len(last.payload.topo_order) :
               last.payload.topo_order[i] = last.payload.topo_order[j] => i = j
        /\ DictWellFormed(last.payload.outputs)
        /\ DictKeys(last.payload.outputs) = last.payload.topo_order
        /\ Len(AgentCallsOf(last.calls)) <= Len(last.payload.topo_order)
        /\ \A i, j \in 1..Len(AgentCallsOf(last.calls)) :
               AgentCallsOf(last.calls)[i].agent = AgentCallsOf(last.calls)[j].agent
                   => i = j

\* A descriptor with a duplicate edge, a self-loop and a name twice in the
\* entry list, whose record orders two names.
C29_Witness ==
    /\ IsBranched
    /\ \E i, j \in 1..Len(CURRENT_DAG.edges) :
           i # j /\ CURRENT_DAG.edges[i] = CURRENT_DAG.edges[j]
    /\ \E i \in 1..Len(CURRENT_DAG.edges) :
           /\ Len(CURRENT_DAG.edges[i]) = 2
           /\ CURRENT_DAG.edges[i][1] = CURRENT_DAG.edges[i][2]
    /\ \E i, j \in 1..Len(CURRENT_DAG.entry) :
           i # j /\ CURRENT_DAG.entry[i] = CURRENT_DAG.entry[j]
    /\ Len(last.payload.topo_order) >= 2
    /\ Len(AgentCallsOf(last.calls)) >= 1

\* Every edge of the descriptor is a pair of names.
PairEdged(dag) == \A i \in 1..Len(dag.edges) : Len(dag.edges[i]) = 2

\* C23: set_dag makes the descriptor equal to its request, edges, entry
\* and outputs, whatever the descriptor was, and answers ok to every
\* request whose edges are pairs, cyclic, self-looping or duplicated; no
\* other handler changes the descriptor; get_dag answers with the three
\* fields of the descriptor, which after a set_dag are those of its request;
\* and the record of a branched run carries the pair edges of the
\* descriptor, its entry when it names one, and an order that begins with
\* that entry.
C23_SetDagWholesale ==
    [][/\ last'.op = "set_dag" =>
              /\ CURRENT_DAG' = last'.body
              /\ PairEdged(last'.body) => last'.status = "ok"
       /\ (last'.op # "set_dag" \/ last' = last) => CURRENT_DAG' = CURRENT_DAG
       /\ (last'.op = "get_dag" /\ PairEdged(CURRENT_DAG)) =>
              /\ last'.status = "ok"
              /\ last'.body.edges = CURRENT_DAG.edges
              /\ last'.body.entry = CURRENT_DAG.entry
              /\ last'.body.outputs = CURRENT_DAG.outputs
       /\ (last'.op = "get_dag" /\ last.op = "set_dag" /\ PairEdged(last.body)) =>
              /\ last'.body.edges = last.body.edges
              /\ last'.body.entry = last.body.entry
              /\ last'.body.outputs = last.body.outputs
       /\ (last'.op = "run_chain" /\ last'.appended
             /\ last'.payload.strategy = "branched") =>
              /\ last'.payload.edges = DagEdges(CURRENT_DAG)
              /\ CURRENT_DAG.entry # <<>> =>
                     /\ last'.payload.entry = CURRENT_DAG.entry
                     /\ last'.payload.topo_order[1] = CURRENT_DAG.entry[1]
              /\ CURRENT_DAG.outputs # <<>> =>
                     DictKeySet(last'.payload.final_result)
                       = Range(CURRENT_DAG.outputs)
              /\ last.op = "set_dag" =>
                     last'.payload.edges = DagEdges(last.body)]_vars

\* Two records of branched runs with different edges are in the history,
\* the later one made under a cyclic descriptor set after the first run,
\* and get_dag has just answered with that descriptor.
C23_Witness ==
    /\ last.op = "get_dag"
    /\ last.status = "ok"
    /\ Len(execution_history) = 2
    /\ execution_history[1].edges = << <<"summary", "diff">>, <<"summary", "diff">> >>
    /\ execution_history[2].edges = << <<"summary", "diff">>, <<"diff", "summary">> >>
    /\ last.body.edges = execution_history[2].edges
    /\ last.body.entry = <<"summary">>

\* The threads that ran a strategy handler to its end.
Successful == {t \in Threads : inflight[t].kind \in RunKinds /\ inflight[t].status = "ok"}

\* C24: with runs handled concurrently, the history holds one record for
\* each run that has made its append and nothing else: the record of the
\* run whose append was the k-th is at position k, so no record is lost,
\* none is there twice, and the order of the history is the order of the
\* appends; and every run that returns has made its append.
C24_AppendsSerialized ==
    /\ Successful = Appended
    /\ Len(execution_history) = Cardinality(Appended)
    /\ \A t \in Appended :
           /\ inflight[t].seq \in 1..Len(execution_history)
           /\ execution_history[inflight[t].seq] = inflight[t].payload
           /\ inflight[t].payload = ThreadPayload(inflight[t])
    /\ \A t, u \in Appended : inflight[t].seq = inflight[u].seq => t = u
    /\ \A k \in 1..Len(execution_history) :
           Cardinality({t \in Appended : inflight[t].payload = execution_history[k]}) = 1

\* Two runs have appended, a parallel run of thread 2 before a sequential
\* run of thread 1 that called its agent twice.
C24_Witness ==
    /\ \A t \in Threads : inflight[t].kind \in RunKinds
    /\ inflight[1].seq = 2
    /\ inflight[2].seq = 1
    /\ inflight[1].kind = "sequential"
    /\ Len(inflight[1].steps) = 2
    /\ inflight[2].kind = "parallel"
    /\ Len(execution_history) = 2

\* Two handlers are at their append at the same time.
C24_WitnessOverlap ==
    /\ \A t \in Threads : inflight[t].kind \in RunKinds /\ inflight[t].pc = "append"
    /\ execution_history = <<>>

\* C25: a strategy handler that runs while the registry is changed sees
\* each name as in one snapshot: it never raises KeyError for a name it
\* found registered, and it never finds one name present on one access
\* and absent on another.
C25_ConsistentSnapshot ==
    \A t \in Threads :
        inflight[t].kind \in RunKinds =>
            /\ inflight[t].exc # "KeyError"
            /\ \A i, j \in 1..Len(inflight[t].seen) :
                   inflight[t].seen[i].name = inflight[t].seen[j].name =>
                       inflight[t].seen[i].present = inflight[t].seen[j].present

\* Two create_agent requests name the same agent and no request deletes it.
ConcurrentCreates(t, u) ==
    /\ t # u
    /\ inflight[t].kind = "create" /\ inflight[u].kind = "create"
    /\ inflight[t].body.name = inflight[u].body.name
    /\ \A v \in Threads : inflight[v].kind \notin {"delete", "update"}

\* C26: of two concurrent create_agent requests for one name, at most one
\* is answered ok, and once both have ended the registry holds the agent
\* of the one that was.
C26_ConcurrentAddExclusive ==
    \A t, u \in Threads :
        (ConcurrentCreates(t, u) /\ inflight[t].pc = "done" /\ inflight[u].pc = "done") =>
            /\ ~(inflight[t].status = "ok" /\ inflight[u].status = "ok")
            /\ inflight[t].status = "ok" =>
                   DictGet(agents, inflight[t].body.name)
                     = Agent(inflight[t].body.name, inflight[t].body.system_prompt,
                             inflight[t].body.model, inflight[t].body.temperature)

\* The handler of SpecKahn has ended.
BranchedEnded == inflight[1].pc = "done"

\* C30: every execute_branched ends, and it ends having appended one
\* record to the history.
C30_BranchedTerminates ==
    <>(/\ BranchedEnded
       /\ inflight[1].exc = ""
       /\ Len(execution_history) = 1)

\* The part of C30 on the loops alone: every execute_branched ends, by its
\* return or by the KeyError of final_out.
C30_HandlerEnds == <>BranchedEnded

\* The queue loop of execute_branched takes a name from the queue at most
\* once for each name of the entry and once for each edge, and orders no
\* name twice.
C30_DequeueBound ==
    inflight[1].pc \in {"kahn", "exec", "done"} =>
        /\ inflight[1].dequeued + Len(inflight[1].q)
             <= Len(inflight[1].entry) + Len(DagEdges(CURRENT_DAG))
        /\ \A i, j \in 1..Len(inflight[1].order) :
               inflight[1].order[i] = inflight[1].order[j] => i = j

\* The handler run step by step ends as execute_branched says.
C30_StepsAgree ==
    BranchedEnded =>
        /\ inflight[1].order = TopoOrder(CURRENT_DAG)
        /\ inflight[1].exc = "" =>
               /\ execution_history = <<inflight[1].payload>>
               /\ inflight[1].payload.topo_order = TopoOrder(CURRENT_DAG)
        /\ inflight[1].exc = "KeyError" =>
               /\ execution_history = <<>>
               /\ \E k \in 1..Len(CURRENT_DAG.outputs) :
                      CURRENT_DAG.outputs[k] \notin Range(TopoOrder(CURRENT_DAG))

=============================================================================
